---- MODULE Spec2Model ----
(***************************************************************************)
(* A model of okmongo: the BSON writer (BsonWriter), the streaming parser  *)
(* (BsonReader), the random-access view (BsonValue / BsonValueIt / Print), *)
(* the keyword matcher (StringMatcher) and the response parser             *)
(* (ResponseReader / OpResponseParser).                                    *)
(*                                                                         *)
(* Bytes are naturals 0..255.  A buffer is a sequence of bytes; the byte   *)
(* at C offset i is buf[i+1].  Pointers into a buffer are offsets, the     *)
(* null pointer is NullPtr.  32 bit integers are kept signed; 64 bit       *)
(* quantities are kept as their 8 little-endian bytes.                     *)
(***************************************************************************)
EXTENDS Integers, Sequences, FiniteSets, TLC

VARIABLES
    w,      \* the BsonWriter
    g,      \* what the caller of the writer knows: calls made, open containers
    r,      \* the reader (BsonReader / ResponseReader / OpResponseParser)
    inp,    \* the bytes the caller of the reader has to feed
    fed,    \* how many of them it has passed to Consume
    ret,    \* what the last Consume call returned
    sm,     \* a StringMatcher and the bytes it was given
    pc      \* the phase of the behaviour

vars == <<w, g, r, inp, fed, ret, sm, pc>>

----------------------------------------------------------------------------
(* Bounds of the model *)

\* number of writer calls (elements, pushes, Clear) in one behaviour
MaxOps == 2
\* largest chunk handed to one Consume call, besides "all that is left"
MaxChunk == 2
\* longest document that is fed to the parser chunk by chunk
MaxInput == 24

----------------------------------------------------------------------------
(* Bytes and integers *)

NullPtr == -1

Max(a, b) == IF a > b THEN a ELSE b

\* In(v): `LET x == v IN ...` with x a parameter, v written once
Let(v, In(_)) == In(v)

\* the byte at C offset i of buf
At(buf, i) == buf[i + 1]

\* buf[from, to) as a sequence
Slice(buf, from, to) == [i \in 1..(to - from) |-> buf[from + i]]

\* memcpy(&out, &v, 4) of an int32_t on a little-endian host
LE32(v) ==
    LET b0 == v % 256
        v1 == v \div 256
        b1 == v1 % 256
        v2 == v1 \div 256
        b2 == v2 % 256
        v3 == v2 \div 256
        b3 == v3 % 256
    IN  <<b0, b1, b2, b3>>

\* memcpy(&v, p, 4) of an int32_t on a little-endian host
RdLE32(buf, off) ==
    LET b3 == At(buf, off + 3)
    IN  At(buf, off) + 256 * At(buf, off + 1) + 65536 * At(buf, off + 2)
        + 16777216 * (IF b3 < 128 THEN b3 ELSE b3 - 256)

\* a byte of memory that has not been written yet
Uninit == -1

\* memcpy(dst + off, bytes, Len(bytes))
WriteAt(data, off, bytes) ==
    (IF off <= Len(data) THEN SubSeq(data, 1, off)
     ELSE data \o [i \in 1..(off - Len(data)) |-> Uninit])
    \o bytes
    \o SubSeq(data, off + Len(bytes) + 1, Len(data))

----------------------------------------------------------------------------
(* enum class BsonTag *)

kDouble == 1
kUtf8 == 2
kDocument == 3
kArray == 4
kBindata == 5
kObjectId == 7
kBool == 8
kUtcDatetime == 9
kNull == 10
kRegexp == 11
kJs == 13
kScopedJs == 15
kInt32 == 16
kTimestamp == 17
kInt64 == 18
kMinKey == -1
kMaxKey == 127

kObjectIdLen == 12

\* a char as the signed value the comparisons of the code see
SChar(c) == IF c >= 128 THEN c - 256 ELSE c

ToBsonTag(c) ==
    IF SChar(c) <= kMinKey \/ SChar(c) >= kMaxKey
    THEN kMinKey
    ELSE IF c \in {kDouble, kUtf8, kDocument, kArray, kBindata, kObjectId,
                   kBool, kUtcDatetime, kNull, kInt32, kTimestamp, kInt64,
                   kRegexp, kJs, kScopedJs}
         THEN c
         ELSE kMinKey

----------------------------------------------------------------------------
(* BsonWriter *)

kMinSize_ == 240

\* the writer after construction; data holds the bytes written so far
\* (bytes at or above the high-water mark are never read by the writer)
NewWriter == [data |-> <<>>, doc_start |-> 0, pos |-> 0, size |-> kMinSize_]

DataIsInline(wr) == wr.size = kMinSize_

\* Reserve that doubles the capacity whatever the request
ReserveDoubleOnly(wr, n) ==
    IF wr.size < wr.pos + n
    THEN [wr EXCEPT !.size = 2 * wr.size,
                    !.data = Slice(wr.data, 0, wr.pos)]
    ELSE wr

Reserve(wr, n) ==
    IF wr.size < wr.pos + n
    THEN [wr EXCEPT !.size = Max(2 * wr.size, wr.size + n + 2),
                    !.data = Slice(wr.data, 0, wr.pos)]
    ELSE wr

Clear(wr) == [wr EXCEPT !.doc_start = 0, !.pos = 0]

\* StartDocument that stores the container's own offset in its length slot
StartDocumentOwnOffset(wr) ==
    [wr EXCEPT !.data = WriteAt(wr.data, wr.pos, LE32(wr.pos)),
               !.doc_start = wr.pos,
               !.pos = wr.pos + 4]

StartDocument(wr) ==
    [wr EXCEPT !.data = WriteAt(wr.data, wr.pos, LE32(wr.doc_start)),
               !.doc_start = wr.pos,
               !.pos = wr.pos + 4]

Document(wr) == StartDocument(Reserve(wr, 5))

\* Pop with the length taken before the terminator is counted
PopLenBeforeTerminator(wr) ==
    Let(Reserve(wr, 1), LAMBDA w1 :
        Let(WriteAt(w1.data, w1.pos, <<0>>), LAMBDA d1 :
            LET doc_len == w1.pos - w1.doc_start
            IN  [w1 EXCEPT !.pos = w1.pos + 1,
                           !.doc_start = RdLE32(d1, w1.doc_start),
                           !.data = WriteAt(d1, w1.doc_start,
                                            LE32(doc_len))]))

Pop(wr) ==
    Let(Reserve(wr, 1), LAMBDA w1 :
        Let(WriteAt(w1.data, w1.pos, <<0>>), LAMBDA d1 :
            LET pos1 == w1.pos + 1
                doc_len == pos1 - w1.doc_start
            IN  [w1 EXCEPT !.pos = pos1,
                           !.doc_start = RdLE32(d1, w1.doc_start),
                           !.data = WriteAt(d1, w1.doc_start,
                                            LE32(doc_len))]))

\* CountDigits that drops three digits per round and counts four
RECURSIVE CountDigitsLoopBy1000(_, _)
CountDigitsLoopBy1000(n, res) ==
    IF n < 10 THEN res
    ELSE IF n < 100 THEN res + 1
    ELSE IF n < 1000 THEN res + 2
    ELSE IF n < 10000 THEN res + 3
    ELSE CountDigitsLoopBy1000(n \div 1000, res + 4)

RECURSIVE CountDigitsLoop(_, _)
CountDigitsLoop(n, res) ==
    IF n < 10 THEN res
    ELSE IF n < 100 THEN res + 1
    ELSE IF n < 1000 THEN res + 2
    ELSE IF n < 10000 THEN res + 3
    ELSE CountDigitsLoop(n \div 10000, res + 4)

CountDigits(n) == CountDigitsLoop(n, 1)

\* StartField(tag, key_data, key_len, cnt_len); the returned pointer is the
\* new pos
StartField(wr, tag, key_data, cnt_len) ==
    LET key_len == Len(key_data)
    IN  Let(Reserve(wr, 1 + key_len + 1 + cnt_len), LAMBDA w1 :
            [w1 EXCEPT !.data = WriteAt(w1.data, w1.pos,
                                        <<tag % 256>> \o key_data \o <<0>>),
                       !.pos = w1.pos + key_len + 2])

\* do { *out = k % 10 + '0'; k /= 10; out--; } while (k);
RECURSIVE DigitLoop(_, _, _)
DigitLoop(data, out, k) ==
    LET d1 == WriteAt(data, out, <<(k % 10) + 48>>)
        k1 == k \div 10
    IN  IF k1 # 0 THEN DigitLoop(d1, out - 1, k1)
        ELSE [data |-> d1, out |-> out - 1]

\* StartField(tag, int32_t k, cntlen)
StartFieldInt(wr, tag, k, cntlen) ==
    LET klen == CountDigits(k)
    IN  Let(Reserve(wr, 1 + klen + 1 + cntlen), LAMBDA w1 :
            Let(DigitLoop(WriteAt(w1.data, w1.pos, <<tag % 256>>),
                          w1.pos + klen, k), LAMBDA lp :
                [w1 EXCEPT !.data = WriteAt(lp.data, lp.out + klen + 1,
                                            <<0>>),
                           !.pos = w1.pos + klen + 2]))

\* a key is an int32_t or a string (KeyHelper<const char *>)
IntKey(n) == [int |-> TRUE, n |-> n, s |-> <<>>]
StrKey(s) == [int |-> FALSE, n |-> 0, s |-> s]

StartFieldK(wr, tag, key, cntlen) ==
    IF key.int THEN StartFieldInt(wr, tag, key.n, cntlen)
    ELSE StartField(wr, tag, key.s, cntlen)

PushArray(wr, key) == StartDocument(StartFieldK(wr, kArray, key, 10))

PushDocument(wr, key) == StartDocument(StartFieldK(wr, kDocument, key, 10))

\* Element<TAG>(k, v): a fixed-width value given as its bytes
ElementFixed(wr, tag, key, bytes) ==
    Let(StartFieldK(wr, tag, key, Len(bytes)), LAMBDA w1 :
        [w1 EXCEPT !.data = WriteAt(w1.data, w1.pos, bytes),
                   !.pos = w1.pos + Len(bytes)])

ElementInt32(wr, key, v) == ElementFixed(wr, kInt32, key, LE32(v))
ElementInt64(wr, key, b8) == ElementFixed(wr, kInt64, key, b8)
ElementDouble(wr, key, b8) == ElementFixed(wr, kDouble, key, b8)
ElementBool(wr, key, v) ==
    ElementFixed(wr, kBool, key, <<IF v THEN 1 ELSE 0>>)
ElementUtcDatetime(wr, key, b8) == ElementFixed(wr, kUtcDatetime, key, b8)
ElementTimestamp(wr, key, b8) == ElementFixed(wr, kTimestamp, key, b8)

ElementObjectId(wr, key, b12) ==
    Let(StartFieldK(wr, kObjectId, key, kObjectIdLen), LAMBDA w1 :
        [w1 EXCEPT !.data = WriteAt(w1.data, w1.pos, b12),
                   !.pos = w1.pos + kObjectIdLen])

ElementNull(wr, key) == StartFieldK(wr, kNull, key, 0)

ElementBindata(wr, key, st, value) ==
    LET value_len == Len(value)
        flen == 4 + 1 + value_len
    IN  Let(StartFieldK(wr, kBindata, key, flen), LAMBDA w1 :
            [w1 EXCEPT !.data = WriteAt(w1.data, w1.pos,
                                        LE32(value_len) \o <<st>> \o value),
                       !.pos = w1.pos + flen])

\* Element(key, value) of a string with the terminator left out of the length
ElementUtf8LenWithoutTerminator(wr, key, value) ==
    LET value_len == Len(value)
        flen == 4 + value_len + 1
    IN  Let(StartFieldK(wr, kUtf8, key, flen), LAMBDA w1 :
            [w1 EXCEPT !.data = WriteAt(w1.data, w1.pos,
                                        LE32(value_len) \o value \o <<0>>),
                       !.pos = w1.pos + flen])

ElementUtf8(wr, key, value) ==
    LET value_len == Len(value)
        flen == 4 + value_len + 1
        wlen == value_len + 1
    IN  Let(StartFieldK(wr, kUtf8, key, flen), LAMBDA w1 :
            [w1 EXCEPT !.data = WriteAt(w1.data, w1.pos,
                                        LE32(wlen) \o value \o <<0>>),
                       !.pos = w1.pos + flen])

\* AppendRawBytes(cnt, len)
AppendRawBytes(wr, cnt) ==
    Let(Reserve(wr, Len(cnt)), LAMBDA w1 :
        [w1 EXCEPT !.data = WriteAt(w1.data, w1.pos, cnt),
                   !.pos = w1.pos + Len(cnt)])

\* AppendCstring(cnt, len)
AppendCstring(wr, cnt) ==
    Let(Reserve(wr, Len(cnt) + 1), LAMBDA w1 :
        [w1 EXCEPT !.data = WriteAt(w1.data, w1.pos, cnt \o <<0>>),
                   !.pos = w1.pos + Len(cnt) + 1])

\* AppendRaw<T>(v), the value given as its sizeof(T) bytes
AppendRaw(wr, bytes) ==
    Let(Reserve(wr, Len(bytes)), LAMBDA w1 :
        [w1 EXCEPT !.data = WriteAt(w1.data, w1.pos, bytes),
                   !.pos = w1.pos + Len(bytes)])

\* FlushLen(): the length of the message goes to its first four bytes
FlushLen(wr) == [wr EXCEPT !.data = WriteAt(wr.data, 0, LE32(wr.pos))]

\* data(), len(): the buffer the writer returns
WData(wr) == Slice(wr.data, 0, wr.pos)

----------------------------------------------------------------------------
(* Writing mongo commands *)

kQuery == 2004

kMaxWriteBatchSize == 1000

\* MsgHeader(id, op): message_length is not initialised by the constructor
MsgHeader(id, op) ==
    <<Uninit, Uninit, Uninit, Uninit>> \o LE32(id) \o LE32(0) \o LE32(op)

\* AppendCommandHeader(w, requestid, db)
AppendCommandHeader(wr, requestid, db) ==
    AppendRaw(
        AppendRaw(
            AppendCstring(
                AppendRawBytes(
                    AppendRaw(AppendRaw(wr, MsgHeader(requestid, kQuery)),
                              LE32(0)),
                    db),
                <<46, 36, 99, 109, 100>>),
            LE32(0)),
        LE32(-1))

\* AppendWriteConcern(w)
AppendWriteConcern(wr) ==
    Pop(ElementInt32(
            ElementInt32(
                PushDocument(wr, StrKey(<<87, 114, 105, 116, 101, 67, 111,
                                          110, 99, 101, 114, 110>>)),
                StrKey(<<119, 116, 105, 109, 101, 111, 117, 116>>), 100),
            StrKey(<<119>>), 1))

\* BsonWriteFields<T>(w, v), the specialisation of the caller: a value of
\* the range is written as its field "a", an int32
BsonWriteFields(wr, v) == ElementInt32(wr, StrKey(<<97>>), v)

\* a round of the loop that does not look at the number of documents written
InsertRangeRoundNoCap(st, range, end) ==
    IF st.curs # end
    THEN [w |-> Pop(BsonWriteFields(PushDocument(st.w, IntKey(st.cnt)),
                                    range[st.curs + 1])),
          curs |-> st.curs + 1, cnt |-> st.cnt + 1]
    ELSE st

\* one round of
\*   while (*curs != end && cnt < kMaxWriteBatchSize) { ... ++(*curs), ++cnt; }
\* range is the sequence the iterators go over, curs and end are positions;
\* a round in which the condition is false changes nothing
InsertRangeRound(st, range, end) ==
    IF st.curs # end /\ st.cnt < kMaxWriteBatchSize
    THEN [w |-> Pop(BsonWriteFields(PushDocument(st.w, IntKey(st.cnt)),
                                    range[st.curs + 1])),
          curs |-> st.curs + 1, cnt |-> st.cnt + 1]
    ELSE st

\* n rounds of the loop, the first half before the second
RECURSIVE InsertRangeRounds(_, _, _, _)
InsertRangeRounds(st, range, end, n) ==
    IF n = 0 THEN st
    ELSE IF n = 1 THEN InsertRangeRound(st, range, end)
    ELSE CHOOSE res \in
             { InsertRangeRounds(s1, range, end, n - (n \div 2)) :
                 s1 \in { InsertRangeRounds(st, range, end, n \div 2) } } :
             TRUE

\* the loop: it has left after at most end - curs rounds, since every round
\* moves curs one step towards end
InsertRangeLoop(wr, range, curs, end) ==
    InsertRangeRounds([w |-> wr, curs |-> curs, cnt |-> 0], range, end,
                      end - curs)

\* FillInsertRangeOp(w, requestid, db, collection, curs, end); returns the
\* writer and the cursor
FillInsertRangeOp(wr, requestid, db, collection, range, curs, end) ==
    Let(InsertRangeLoop(
            PushArray(
                ElementUtf8(Document(AppendCommandHeader(wr, requestid, db)),
                            StrKey(<<105, 110, 115, 101, 114, 116>>),
                            collection),
                StrKey(<<100, 111, 99, 117, 109, 101, 110, 116, 115>>)),
            range, curs, end), LAMBDA lp :
        [w |-> FlushLen(Pop(AppendWriteConcern(Pop(lp.w)))),
         curs |-> lp.curs])

\* a specialization of BsonWriteFields that can fail: for the value
\* [v, ok] it writes {"a": v} and returns true, or writes nothing and
\* returns false
BsonWriteFieldsOf(wr, val) ==
    [w |-> IF val.ok THEN BsonWriteFields(wr, val.v) ELSE wr, ok |-> val.ok]

\* InsertDocuments<cnt>(w, v, rest...); returns the writer and the result
RECURSIVE InsertDocuments(_, _, _)
InsertDocuments(wr, values, cnt) ==
    IF values = <<>> THEN [w |-> wr, ok |-> TRUE]
    ELSE Let(BsonWriteFieldsOf(PushDocument(wr, IntKey(cnt)), Head(values)),
             LAMBDA f :
                 IF ~f.ok THEN [w |-> f.w, ok |-> FALSE]
                 ELSE [w |-> InsertDocuments(Pop(f.w), Tail(values),
                                             cnt + 1).w,
                       ok |-> TRUE])

\* FillInsertOp(w, requestid, db, collection, values...); returns the writer
\* and the result
FillInsertOp(wr, requestid, db, collection, values) ==
    Let(InsertDocuments(
            PushArray(
                ElementUtf8(Document(AppendCommandHeader(wr, requestid, db)),
                            StrKey(<<105, 110, 115, 101, 114, 116>>),
                            collection),
                StrKey(<<100, 111, 99, 117, 109, 101, 110, 116, 115>>)),
            values, 0), LAMBDA ins :
        IF ~ins.ok THEN [w |-> ins.w, ok |-> FALSE]
        ELSE [w |-> FlushLen(Pop(AppendWriteConcern(Pop(ins.w)))),
              ok |-> TRUE])

----------------------------------------------------------------------------
(* StringMatcher<T, keywords> *)

\* a keyword as the bytes of its C string, terminating null included
Kw(str, val) == [match |-> str \o <<0>>, val |-> val]

\* keywords[i].match[pos]; OutOfKw marks a read behind the terminating null
OutOfKw == -2

KwAt(kws, i, pos) ==
    IF pos < Len(kws.k[i + 1].match) THEN kws.k[i + 1].match[pos + 1]
    ELSE OutOfKw

\* GetNumActions(keywords)
totlen_(kws) == Len(kws.k)

NewMatcher(kws) ==
    [pos |-> 0, min |-> 0, max |-> totlen_(kws) - 1, state |-> "kRunning",
     oob |-> FALSE]

RECURSIVE MinLoop(_, _, _)
MinLoop(kws, m, c_in) ==
    IF m.min < m.max /\ KwAt(kws, m.min, m.pos) # c_in
    THEN MinLoop(kws, [m EXCEPT !.min = m.min + 1,
                                !.oob = m.oob
                                        \/ KwAt(kws, m.min, m.pos) = OutOfKw],
                 c_in)
    ELSE m

\* the second loop of AddChar leaving max_ alone after one round
MaxLoopOnce(kws, m, c_in) ==
    IF m.min < m.max /\ KwAt(kws, m.max, m.pos) # c_in
    THEN [m EXCEPT !.max = m.max - 1,
                   !.oob = m.oob \/ KwAt(kws, m.max, m.pos) = OutOfKw]
    ELSE m

RECURSIVE MaxLoop(_, _, _)
MaxLoop(kws, m, c_in) ==
    IF m.min < m.max /\ KwAt(kws, m.max, m.pos) # c_in
    THEN MaxLoop(kws, [m EXCEPT !.max = m.max - 1,
                                !.oob = m.oob
                                        \/ KwAt(kws, m.max, m.pos) = OutOfKw],
                 c_in)
    ELSE m

\* AddChar that succeeds as soon as one keyword is left, terminated or not
AddCharNoTerminator(kws, m, c_in) ==
    IF m.state # "kRunning" THEN m
    ELSE Let(MaxLoop(kws, MinLoop(kws, m, c_in), c_in), LAMBDA m1 :
             IF m1.min = m1.max /\ KwAt(kws, m1.max, m1.pos) # c_in
             THEN [m1 EXCEPT !.state = "kFailed"]
             ELSE IF m1.min = m1.max
             THEN [m1 EXCEPT !.state = "kSuccess"]
             ELSE [m1 EXCEPT !.pos = (m1.pos + 1) % 256])

AddChar(kws, m, c_in) ==
    IF m.state # "kRunning" THEN m
    ELSE Let(MaxLoop(kws, MinLoop(kws, m, c_in), c_in), LAMBDA m1 :
             IF m1.min = m1.max /\ KwAt(kws, m1.max, m1.pos) # c_in
             THEN [m1 EXCEPT !.state = "kFailed",
                             !.oob = m1.oob
                                     \/ KwAt(kws, m1.max, m1.pos) = OutOfKw]
             ELSE IF m1.min = m1.max /\ c_in = 0
             THEN [m1 EXCEPT !.state = "kSuccess"]
             ELSE [m1 EXCEPT !.pos = (m1.pos + 1) % 256])

GetResult(kws, m) ==
    IF m.state = "kSuccess" THEN kws.k[m.min + 1].val ELSE kws.default

Reset(kws, m) == NewMatcher(kws)

RECURSIVE AddChars(_, _, _)
AddChars(kws, m, str) ==
    IF str = <<>> THEN m
    ELSE AddChars(kws, AddChar(kws, m, Head(str)), Tail(str))

----------------------------------------------------------------------------
(* Parse events, as an event-recording sink sees them.  k is the callback,  *)
(* d its argument: the chunk of a field_name/utf8/js/bindata callback (its  *)
(* len is Len(d)), the value of an int32 (one signed integer), the bytes of *)
(* a 64 bit value or of an object id, the diagnostic of an error.           *)

Ev(k, d) == [k |-> k, d |-> d]

\* the diagnostics passed to Error()
MsgNegativeLength == <<78, 101, 103, 97, 116, 105, 118, 101, 32, 108, 101, 110, 103, 116, 104, 33>>
MsgInternalError == <<105, 110, 116, 101, 114, 110, 97, 108, 32, 101, 114, 114, 111, 114>>
MsgExpectedNull == <<101, 120, 112, 101, 99, 116, 101, 100, 32, 110, 117, 108, 108, 32, 98, 121, 116, 101>>
MsgNotHandled == <<70, 105, 101, 108, 100, 32, 116, 121, 112, 101, 32, 110, 111, 32, 104, 97, 110, 100, 108, 101, 100>>
MsgInvalidTag == <<73, 110, 118, 97, 108, 105, 100, 32, 98, 115, 111, 110, 32, 116, 97, 103>>
MsgInternalError2 == <<73, 110, 116, 101, 114, 110, 97, 108, 32, 101, 114, 114, 111, 114>>

----------------------------------------------------------------------------
(* OpResponseParser: the fields it adds to the reader, and its callbacks *)

sma_ ==
    [k |-> << Kw(<<111, 107>>, "kOk"),
              Kw(<<110, 77, 111, 100, 105, 102, 105, 101, 100>>,
                 "kNModified"),
              Kw(<<110>>, "kN"),
              Kw(<<119, 114, 105, 116, 101, 69, 114, 114, 111, 114, 115>>,
                 "kWriteErrors"),
              Kw(<<119, 114, 105, 116, 101, 67, 111, 110, 99, 101, 114, 110, 69, 114, 114, 111, 114, 115>>, "kWriteConcernErrors") >>,
     default |-> "kUnknown"]

ema_ ==
    [k |-> << Kw(<<105, 110, 100, 101, 120>>, "kIndex"),
              Kw(<<101, 114, 114, 109, 115, 103>>, "kErrMsg"),
              Kw(<<101, 114, 114, 73, 110, 102, 111>>, "kErrInfo"),
              Kw(<<107, 99, 111, 100, 101>>, "kCode") >>,
     default |-> "kUnknown"]

\* CmdError{}
NewCmdError ==
    [code |-> 0, index |-> 0, msg |-> <<>>, info |-> <<>>,
     type |-> "WriteError"]

\* OperationResponse
NewResult == [ok |-> 0, n |-> 0, nModified |-> 0, errors |-> <<>>]

\* res_.errors.back() = f(res_.errors.back()); back() of an empty vector is
\* undefined: the model marks it in fault and leaves the vector alone; the
\* assert(false) branches of the dispatch functions set fault as well
SetBack(rd, fld, val) ==
    IF rd.res.errors = <<>>
    THEN [rd EXCEPT !.fault = TRUE]
    ELSE [rd EXCEPT !.res.errors[Len(rd.res.errors)][fld] = val]

AppendBack(rd, fld, bytes) ==
    IF rd.res.errors = <<>>
    THEN [rd EXCEPT !.fault = TRUE]
    ELSE [rd EXCEPT !.res.errors[Len(rd.res.errors)][fld] = @ \o bytes]

\* IsError that looks at the depth only
IsErrorAnyField(rd) == rd.odepth = 3

IsError(rd) ==
    rd.odepth = 3 /\ (rd.base_field = "kWriteErrors"
                      \/ rd.base_field = "kWriteConcernErrors")

OpEmitFieldName(rd, data) ==
    IF rd.odepth = 1
    THEN LET m0 == IF rd.base_field # "kField"
                   THEN NewMatcher(sma_) ELSE rd.matcher
         IN  Let(AddChars(sma_, m0, data), LAMBDA m1 :
                 IF Len(data) = 0
                 THEN Let(AddChar(sma_, m1, 0), LAMBDA m2 :
                          [rd EXCEPT !.matcher = m2,
                                     !.base_field = GetResult(sma_, m2)])
                 ELSE [rd EXCEPT !.matcher = m1, !.base_field = "kField"])
    ELSE IF IsError(rd)
    THEN LET m0 == IF rd.error_field # "kField"
                   THEN NewMatcher(ema_) ELSE rd.matcher
         IN  Let(AddChars(ema_, m0, data), LAMBDA m1 :
                 IF Len(data) = 0
                 THEN Let(AddChar(ema_, m1, 0), LAMBDA m2 :
                          [rd EXCEPT !.matcher = m2,
                                     !.error_field = GetResult(ema_, m2)])
                 ELSE [rd EXCEPT !.matcher = m1, !.error_field = "kField"])
    ELSE rd

OpEmitOpenDoc(rd) ==
    LET r1 == [rd EXCEPT !.odepth = (rd.odepth + 1) % 256]
    IN  IF IsError(r1)
        THEN [r1 EXCEPT !.res.errors =
                 Append(@, [NewCmdError EXCEPT !.type =
                     IF r1.base_field = "kWriteConcernErrors"
                     THEN "WriteConcernError" ELSE "WriteError"])]
        ELSE r1

OpEmitOpenArray(rd) == [rd EXCEPT !.odepth = (rd.odepth + 1) % 256]

OpEmitClose(rd) == [rd EXCEPT !.odepth = (rd.odepth - 1) % 256]

\* EmitInt32 that does not look at the depth
OpEmitInt32AnyDepth(rd, i) ==
    CASE rd.base_field = "kOk" -> [rd EXCEPT !.res.ok = i]
      [] rd.base_field = "kN" -> [rd EXCEPT !.res.n = i]
      [] rd.base_field = "kNModified" -> [rd EXCEPT !.res.nModified = i]
      [] OTHER -> rd

OpEmitInt32(rd, i) ==
    IF rd.odepth = 1
    THEN CASE rd.base_field = "kOk" -> [rd EXCEPT !.res.ok = i]
           [] rd.base_field = "kN" -> [rd EXCEPT !.res.n = i]
           [] rd.base_field = "kNModified" -> [rd EXCEPT !.res.nModified = i]
           [] OTHER -> rd
    ELSE IF IsError(rd)
    THEN CASE rd.error_field = "kCode" -> SetBack(rd, "code", i)
           [] rd.error_field = "kIndex" -> SetBack(rd, "index", i)
           [] OTHER -> rd
    ELSE rd

\* EmitUtf8 that keeps the last chunk of a string only
OpEmitUtf8LastChunk(rd, cnt) ==
    IF Len(cnt) = 0 THEN rd
    ELSE IF IsError(rd)
    THEN CASE rd.error_field = "kErrMsg" -> SetBack(rd, "msg", cnt)
           [] rd.error_field = "kErrInfo" -> SetBack(rd, "info", cnt)
           [] OTHER -> rd
    ELSE rd

OpEmitUtf8(rd, cnt) ==
    IF Len(cnt) = 0 THEN rd
    ELSE IF IsError(rd)
    THEN CASE rd.error_field = "kErrMsg" -> AppendBack(rd, "msg", cnt)
           [] rd.error_field = "kErrInfo" -> AppendBack(rd, "info", cnt)
           [] OTHER -> rd
    ELSE rd

\* EmitError that drops the records collected before the error
OpEmitErrorAlone(rd, msg) ==
    [rd EXCEPT !.res.errors =
        << [NewCmdError EXCEPT !.msg = msg, !.type = "ParseError"] >>]

OpEmitError(rd, msg) ==
    [rd EXCEPT !.res.errors =
        Append(@, [NewCmdError EXCEPT !.msg = msg, !.type = "ParseError"])]

----------------------------------------------------------------------------
(* BsonReader<Implementation>, ResponseReader<Implementation>               *)
(*                                                                         *)
(* impl names the class at the bottom of the CRTP chain:                   *)
(*   "doc"  a BsonReader whose callbacks record the events                 *)
(*   "resp" a ResponseReader whose callbacks record the events             *)
(*   "op"   OpResponseParser (its events are recorded as well)             *)
(* A function of the code that takes (s, end) takes the chunk c and the    *)
(* offset s in it; end is Len(c).  It returns the reader and the pointer.  *)

Min(a, b) == IF a < b THEN a ELSE b

kScratchLen_ == 12

\* sizeof(ResponseHeader)
kHeaderLen == 36

Int8(x) == ((x + 128) % 256) - 128

\* T::kInitialState
kInitialState(impl) == IF impl = "doc" THEN "kReadInt32" ELSE "kHdr"

\* BsonReader::Clear
ReaderClear(rd) ==
    [rd EXCEPT !.state = kInitialState(rd.impl),
               !.typ = kDocument,
               !.depth = 0,
               !.partial = 0,
               !.bytes_seen = 0]

\* ResponseReader::Clear
ResponseClear(rd) ==
    [ReaderClear(rd) EXCEPT !.header_ = [i \in 1..kHeaderLen |-> 0],
                            !.doc_count = 0]

\* the reader after construction
NewReader(impl) ==
    ReaderClear(
        [impl |-> impl, state |-> "kError", typ |-> kMinKey, depth |-> 0,
         partial |-> 0, bytes_seen |-> 0,
         scratch_ |-> [i \in 1..kScratchLen_ |-> Uninit],
         header_ |-> [i \in 1..kHeaderLen |-> 0], doc_count |-> 0,
         base_field |-> "kUnknown", error_field |-> "kUnknown", odepth |-> 0,
         matcher |-> NewMatcher(sma_), res |-> NewResult, fault |-> FALSE,
         ev |-> <<>>])

\* ResponseReader(const ResponseHeader &header): the base class constructor
\* runs first, then header_ is initialised and bytes_seen_ is set
NewReaderWithHeader(impl, header) ==
    [NewReader(impl) EXCEPT !.header_ = header, !.bytes_seen = kHeaderLen]

Ret(rd, p) == [r |-> rd, p |-> p, tail |-> FALSE]

Log(rd, k, d) == [rd EXCEPT !.ev = Append(@, Ev(k, d))]

\* the callbacks of the implementation
EmitOpenDoc(rd) ==
    LET r1 == Log(rd, "open_doc", <<>>)
    IN  IF rd.impl = "op" THEN OpEmitOpenDoc(r1) ELSE r1

EmitOpenArray(rd) ==
    LET r1 == Log(rd, "open_array", <<>>)
    IN  IF rd.impl = "op" THEN OpEmitOpenArray(r1) ELSE r1

EmitClose(rd) ==
    LET r1 == Log(rd, "close", <<>>)
    IN  IF rd.impl = "op" THEN OpEmitClose(r1) ELSE r1

EmitInt32(rd, t) ==
    LET r1 == Log(rd, "int32", <<t>>)
    IN  IF rd.impl = "op" THEN OpEmitInt32(r1, t) ELSE r1

EmitUtf8(rd, d) ==
    LET r1 == Log(rd, "utf8", d)
    IN  IF rd.impl = "op" THEN OpEmitUtf8(r1, d) ELSE r1

EmitFieldName(rd, d) ==
    LET r1 == Log(rd, "field_name", d)
    IN  IF rd.impl = "op" THEN OpEmitFieldName(r1, d) ELSE r1

EmitError(rd, msg) ==
    LET r1 == Log(rd, "error", msg)
    IN  IF rd.impl = "op" THEN OpEmitError(r1, msg) ELSE r1

EmitInt64(rd, b8) == Log(rd, "int64", b8)
EmitUtcDatetime(rd, b8) == Log(rd, "utc_datetime", b8)
EmitTimestamp(rd, b8) == Log(rd, "timestamp", b8)
EmitDouble(rd, b8) == Log(rd, "double", b8)
EmitBool(rd, v) == Log(rd, "bool", <<IF v THEN 1 ELSE 0>>)
EmitNull(rd) == Log(rd, "null", <<>>)
EmitJs(rd, d) == Log(rd, "js", d)
EmitBindataSubtype(rd, st) == Log(rd, "bindata_subtype", <<st>>)
EmitBindata(rd, d) == Log(rd, "bindata", d)
EmitObjectId(rd, b12) == Log(rd, "object_id", b12)
EmitStart(rd, hdr) == Log(rd, "start", hdr)
EmitStop(rd) == Log(rd, "stop", <<>>)
EmitDocumentStart(rd, idx) == Log(rd, "document_start", <<idx>>)
EmitDocumentDone(rd) == Log(rd, "document_done", <<>>)

\* Error that reports the error and does not latch it
ErrorNoLatch(rd, msg) == Ret(EmitError(rd, msg), NullPtr)

\* BsonReader::Error
Error(rd, msg) == Ret(EmitError([rd EXCEPT !.state = "kError"], msg), NullPtr)

\* ReadBytes that copies to the start of dst instead of dst + partial_
ReadBytesNoResume(rd, c, s, sz, dst, state) ==
    LET n == Max(0, Min(sz - rd.partial, Len(c) - s))
        i == rd.partial + n
        r1 == [rd EXCEPT ![dst] = WriteAt(@, 0, Slice(c, s, s + n))]
    IN  IF i < sz
        THEN [r |-> [r1 EXCEPT !.partial = i, !.state = state],
              s |-> Len(c), done |-> FALSE]
        ELSE [r |-> [r1 EXCEPT !.partial = 0], s |-> s + n, done |-> TRUE]

\* ReadBytes(&done, s, end, sz, dst, state); dst names the field written
ReadBytes(rd, c, s, sz, dst, state) ==
    LET n == Max(0, Min(sz - rd.partial, Len(c) - s))
        i == rd.partial + n
        r1 == [rd EXCEPT ![dst] = WriteAt(@, rd.partial, Slice(c, s, s + n))]
    IN  IF i < sz
        THEN [r |-> [r1 EXCEPT !.partial = i, !.state = state],
              s |-> Len(c), done |-> FALSE]
        ELSE [r |-> [r1 EXCEPT !.partial = 0], s |-> s + n, done |-> TRUE]

\* DispatchStringData(s, inlen)
DispatchStringData(rd, d) ==
    CASE rd.typ = kUtf8 -> EmitUtf8(rd, d)
      [] rd.typ = kJs -> EmitJs(rd, d)
      [] rd.typ = kBindata -> EmitBindata(rd, d)
      [] OTHER -> [rd EXCEPT !.fault = TRUE]

\* the offset of the first null byte of c at or after s, Len(c) if none
RECURSIVE FindNull(_, _)
FindNull(c, s) ==
    IF s >= Len(c) THEN Len(c)
    ELSE IF At(c, s) = 0 THEN s
    ELSE FindNull(c, s + 1)

\* `return ConsumeFieldTyp(s, end)`: the call in tail position is the value
\* returned; Resume makes the call
TailConsumeFieldTyp(rd, s) == [r |-> rd, p |-> s, tail |-> TRUE]

\* DocumentDone that takes the whole chunk
ReaderDocumentDoneAtEnd(rd, c, s) ==
    Ret([rd EXCEPT !.state = "kDone"], Len(c))

\* BsonReader::DocumentDone
ReaderDocumentDone(rd, c, s) == Ret([rd EXCEPT !.state = "kDone"], s)

\* ConsumeValueStringTerm that takes any byte for the terminator
ConsumeValueStringTermAny(rd, c, s) ==
    IF s = Len(c) THEN Ret([rd EXCEPT !.state = "kReadStringTerm"], Len(c))
    ELSE TailConsumeFieldTyp([rd EXCEPT !.partial = 0], s + 1)

\* ConsumeValueStringTerm that leaves partial_ as the string left it
ConsumeValueStringTermKeepPartial(rd, c, s) ==
    IF s = Len(c) THEN Ret([rd EXCEPT !.state = "kReadStringTerm"], Len(c))
    ELSE IF At(c, s) # 0 THEN Error(rd, MsgExpectedNull)
    ELSE TailConsumeFieldTyp(rd, s + 1)

ConsumeValueStringTerm(rd, c, s) ==
    IF s = Len(c) THEN Ret([rd EXCEPT !.state = "kReadStringTerm"], Len(c))
    ELSE LET r1 == [rd EXCEPT !.partial = 0]
         IN  IF At(c, s) # 0 THEN Error(r1, MsgExpectedNull)
             ELSE TailConsumeFieldTyp(r1, s + 1)

ConsumeValueString(rd, c, s) ==
    LET inlen == Len(c) - s
    IN  IF inlen < rd.partial
        THEN LET r1 == [rd EXCEPT !.state = "kReadString",
                                  !.partial = rd.partial - inlen]
             IN  Ret(IF inlen > 0
                     THEN DispatchStringData(r1, Slice(c, s, Len(c)))
                     ELSE r1, Len(c))
        ELSE Let(DispatchStringData(
                     DispatchStringData(rd, Slice(c, s, s + rd.partial)),
                     <<>>), LAMBDA r1 :
                 IF r1.typ = kBindata
                 THEN TailConsumeFieldTyp([r1 EXCEPT !.partial = 0],
                                          s + r1.partial)
                 ELSE ConsumeValueStringTerm(r1, c, s + r1.partial))

ConsumeValueBinSubtype(rd, c, s) ==
    IF s = Len(c) THEN Ret([rd EXCEPT !.state = "kReadBinSubtype"], Len(c))
    ELSE ConsumeValueString(EmitBindataSubtype(rd, At(c, s)), c, s + 1)

ConsumeValueInt32Cnt(rd, c, s, t) ==
    CASE rd.typ = kDocument ->
           TailConsumeFieldTyp(
               EmitOpenDoc([rd EXCEPT !.depth = Int8(rd.depth + 1)]), s)
      [] rd.typ = kArray ->
           TailConsumeFieldTyp(
               EmitOpenArray([rd EXCEPT !.depth = Int8(rd.depth + 1)]), s)
      [] rd.typ = kInt32 -> TailConsumeFieldTyp(EmitInt32(rd, t), s)
      [] rd.typ \in {kUtf8, kJs} ->
           IF t < 1 THEN Error(rd, MsgNegativeLength)
           ELSE ConsumeValueString([rd EXCEPT !.partial = t - 1], c, s)
      [] rd.typ = kBindata ->
           IF t < 0 THEN Error(rd, MsgNegativeLength)
           ELSE ConsumeValueBinSubtype([rd EXCEPT !.partial = t], c, s)
      [] OTHER -> Error(rd, MsgInternalError)

\* ReadVal<int32_t, kReadInt32, ConsumeValueInt32Cnt>
ConsumeValueInt32(rd, c, s) ==
    Let(ReadBytes(rd, c, s, 4, "scratch_", "kReadInt32"), LAMBDA rb :
        IF ~rb.done THEN Ret(rb.r, rb.s)
        ELSE ConsumeValueInt32Cnt(rb.r, c, rb.s, RdLE32(rb.r.scratch_, 0)))

ConsumeValueInt64Cnt(rd, c, s, t) ==
    LET r1 == CASE rd.typ = kInt64 -> EmitInt64(rd, t)
                [] rd.typ = kUtcDatetime -> EmitUtcDatetime(rd, t)
                [] rd.typ = kTimestamp -> EmitTimestamp(rd, t)
                [] OTHER -> [rd EXCEPT !.fault = TRUE]
    IN  TailConsumeFieldTyp(r1, s)

\* ReadVal<int64_t, kReadInt64, ConsumeValueInt64Cnt>
ConsumeValueInt64(rd, c, s) ==
    Let(ReadBytes(rd, c, s, 8, "scratch_", "kReadInt64"), LAMBDA rb :
        IF ~rb.done THEN Ret(rb.r, rb.s)
        ELSE ConsumeValueInt64Cnt(rb.r, c, rb.s,
                                  Slice(rb.r.scratch_, 0, 8)))

ConsumeValueBool(rd, c, s) ==
    IF s = Len(c) THEN Ret([rd EXCEPT !.state = "kReadBool"], Len(c))
    ELSE TailConsumeFieldTyp(EmitBool(rd, SChar(At(c, s)) > 0), s + 1)

ConsumeValueDoubleCnt(rd, c, s, d) == TailConsumeFieldTyp(EmitDouble(rd, d), s)

\* ReadVal<double, kReadDouble, ConsumeValueDoubleCnt>
ConsumeValueDouble(rd, c, s) ==
    Let(ReadBytes(rd, c, s, 8, "scratch_", "kReadDouble"), LAMBDA rb :
        IF ~rb.done THEN Ret(rb.r, rb.s)
        ELSE ConsumeValueDoubleCnt(rb.r, c, rb.s,
                                   Slice(rb.r.scratch_, 0, 8)))

ConsumeValueObjectId(rd, c, s) ==
    Let(ReadBytes(rd, c, s, kObjectIdLen, "scratch_", "kReadObjectId"),
        LAMBDA rb :
            IF ~rb.done THEN Ret(rb.r, rb.s)
            ELSE TailConsumeFieldTyp(
                     EmitObjectId(rb.r,
                                  Slice(rb.r.scratch_, 0, kObjectIdLen)),
                     rb.s))

ConsumeValue(rd, c, s) ==
    CASE rd.typ \in {kInt32, kArray, kDocument, kUtf8, kJs, kBindata} ->
           ConsumeValueInt32(rd, c, s)
      [] rd.typ \in {kInt64, kUtcDatetime, kTimestamp} ->
           ConsumeValueInt64(rd, c, s)
      [] rd.typ = kBool -> ConsumeValueBool(rd, c, s)
      [] rd.typ = kDouble -> ConsumeValueDouble(rd, c, s)
      [] rd.typ = kNull -> TailConsumeFieldTyp(EmitNull(rd), s)
      [] rd.typ = kObjectId -> ConsumeValueObjectId(rd, c, s)
      [] rd.typ \in {kRegexp, kScopedJs} -> Error(rd, MsgNotHandled)
      [] rd.typ = kMinKey -> Error(rd, MsgInvalidTag)
      [] rd.typ = kMaxKey -> Error(rd, MsgInternalError2)

\* ConsumeFieldName that ends a name with the len = 0 call only when no
\* byte of the name is in the chunk
ConsumeFieldNameEndIfEmpty(rd, c, s) ==
    LET z == FindNull(c, s)
    IN  Let(IF z - s > 0 THEN EmitFieldName(rd, Slice(c, s, z)) ELSE rd,
            LAMBDA r1 :
                IF z < Len(c)
                THEN ConsumeValue(IF z - s > 0 THEN r1
                                  ELSE EmitFieldName(r1, <<>>), c, z + 1)
                ELSE Ret([r1 EXCEPT !.state = "kFieldName"], Len(c)))

ConsumeFieldName(rd, c, s) ==
    LET z == FindNull(c, s)
    IN  Let(IF z - s > 0 THEN EmitFieldName(rd, Slice(c, s, z)) ELSE rd,
            LAMBDA r1 :
                IF z < Len(c)
                THEN ConsumeValue(EmitFieldName(r1, <<>>), c, z + 1)
                ELSE Ret([r1 EXCEPT !.state = "kFieldName"], Len(c)))

\* ResponseReader::DocumentStart calls Parent::ConsumeValueDocument, which
\* reads the length prefix of the document (typ_ is kDocument) and opens it
ConsumeValueDocument(rd, c, s) == ConsumeValueInt32(rd, c, s)

DocumentStart(rd, c, s) == ConsumeValueDocument(rd, c, s)

\* header_.number_returned
NumberReturned(hdr) == RdLE32(hdr, 32)

\* NextDocument that reports document_done before the first document too
NextDocumentDoneFirst(rd, c, s) ==
    LET r1 == EmitDocumentDone(rd)
    IN  IF r1.doc_count # NumberReturned(r1.header_)
        THEN LET r2 == EmitDocumentStart(r1, r1.doc_count)
             IN  DocumentStart([r2 EXCEPT !.doc_count = r2.doc_count + 1,
                                          !.typ = kDocument], c, s)
        ELSE ReaderDocumentDone(EmitStop(r1), c, s)

NextDocument(rd, c, s) ==
    LET r1 == IF rd.doc_count > 0 THEN EmitDocumentDone(rd) ELSE rd
    IN  IF r1.doc_count # NumberReturned(r1.header_)
        THEN LET r2 == EmitDocumentStart(r1, r1.doc_count)
             IN  DocumentStart([r2 EXCEPT !.doc_count = r2.doc_count + 1,
                                          !.typ = kDocument], c, s)
        ELSE ReaderDocumentDone(EmitStop(r1), c, s)

\* impl().DocumentDone
DocumentDone(rd, c, s) ==
    IF rd.impl = "doc" THEN ReaderDocumentDone(rd, c, s)
    ELSE NextDocument(rd, c, s)

ConsumeHdr(rd, c, s) ==
    Let(ReadBytes(rd, c, s, kHeaderLen, "header_", "kHdr"), LAMBDA rb :
        IF ~rb.done THEN Ret(rb.r, rb.s)
        ELSE NextDocument(EmitStart(rb.r, rb.r.header_), c, rb.s))

\* ConsumeFieldTyp that decodes the byte 0x00 as a tag
ConsumeFieldTypNoTerminator(rd, c, s) ==
    IF s = Len(c) THEN Ret([rd EXCEPT !.state = "kFieldTyp"], Len(c))
    ELSE ConsumeFieldName([rd EXCEPT !.typ = ToBsonTag(At(c, s))], c, s + 1)

ConsumeFieldTyp(rd, c, s) ==
    IF s = Len(c) THEN Ret([rd EXCEPT !.state = "kFieldTyp"], Len(c))
    ELSE IF At(c, s) = 0
    THEN LET r1 == EmitClose([rd EXCEPT !.depth = Int8(rd.depth - 1)])
         IN  IF r1.depth = 0 THEN DocumentDone(r1, c, s + 1)
             ELSE TailConsumeFieldTyp(r1, s + 1)
    ELSE ConsumeFieldName([rd EXCEPT !.typ = ToBsonTag(At(c, s))], c, s + 1)

\* the calls of ConsumeFieldTyp in tail position, until one returns a pointer
RECURSIVE Resume(_, _)
Resume(e, c) ==
    IF e.tail THEN Resume(ConsumeFieldTyp(e.r, c, e.p), c) ELSE e

\* int32_t Consume(const char *s, int32_t len)
Consume(rd, c) ==
    IF Len(c) = 0 THEN [r |-> rd, ret |-> 0]
    ELSE IF rd.state \in {"kError", "kDone"} THEN [r |-> rd, ret |-> 0]
    ELSE Let(Resume(CASE rd.state = "kFieldTyp" -> ConsumeFieldTyp(rd, c, 0)
                    [] rd.state = "kFieldName" -> ConsumeFieldName(rd, c, 0)
                    [] rd.state = "kReadInt32" -> ConsumeValueInt32(rd, c, 0)
                    [] rd.state = "kReadInt64" -> ConsumeValueInt64(rd, c, 0)
                    [] rd.state = "kReadBool" -> ConsumeValueBool(rd, c, 0)
                    [] rd.state = "kReadDouble" ->
                         ConsumeValueDouble(rd, c, 0)
                    [] rd.state = "kReadString" ->
                         ConsumeValueString(rd, c, 0)
                    [] rd.state = "kReadStringTerm" ->
                         ConsumeValueStringTerm(rd, c, 0)
                    [] rd.state = "kReadBinSubtype" ->
                         ConsumeValueBinSubtype(rd, c, 0)
                    [] rd.state = "kReadObjectId" ->
                         ConsumeValueObjectId(rd, c, 0)
                    [] rd.state = "kHdr" -> ConsumeHdr(rd, c, 0), c),
             LAMBDA e :
                 IF e.p = NullPtr THEN [r |-> e.r, ret |-> -1]
                 ELSE [r |-> [e.r EXCEPT !.bytes_seen = @ + e.p],
                       ret |-> e.p])

\* bool Done() const
Done(rd) == rd.state = "kDone" \/ rd.state = "kError"

----------------------------------------------------------------------------
(* BsonValue, BsonValueIt, Print: the random-access view.                   *)
(* A view is [data, tag, size] over a buffer buf; data is an offset in buf  *)
(* or NullPtr.  An iterator adds end_ and key_.                             *)

\* a byte read outside of the buffer
OutOfBuf == -3

\* *p for a pointer p into buf
Rd(buf, i) == IF i >= 0 /\ i < Len(buf) THEN buf[i + 1] ELSE OutOfBuf

\* memcpy(&res, data, sizeof(int32_t)) from the buffer
Rd32(buf, off) ==
    IF off >= 0 /\ off + 4 <= Len(buf) THEN RdLE32(buf, off) ELSE OutOfBuf

\* the bytes [from, from + n) of the buffer
RdSlice(buf, from, n) == [i \in 1..n |-> Rd(buf, from + i - 1)]

\* int32_t addition of a small offset; wraps like the two's complement add
Add32(a, b) ==
    IF a > 2147483647 - b
    THEN (a - 2147483647 - 1) + (b - 2147483647 - 1)
    ELSE a + b

TagLengthOffset(tag) ==
    CASE tag \in {kJs, kUtf8} -> 4
      [] tag = kBindata -> 5
      [] OTHER -> 0

\* GetValueLength(tag, data, size); -1 in case of error
GetValueLength(buf, tag, data, size) ==
    LET len == Rd32(buf, data)
        res == CASE tag \in {kDocument, kArray, kJs, kUtf8, kBindata} ->
                      IF size < 5 THEN -1
                      ELSE IF len <= 0 THEN -1
                      ELSE Add32(len, TagLengthOffset(tag))
                 [] tag = kDouble -> 8
                 [] tag = kObjectId -> 12
                 [] tag = kBool -> 1
                 [] tag = kInt32 -> 4
                 [] tag \in {kInt64, kUtcDatetime, kTimestamp} -> 8
                 [] tag = kNull -> 0
                 [] OTHER -> -1
        null_terminated == tag \in {kDocument, kArray, kJs, kUtf8}
    IN  IF res = -1 THEN -1
        ELSE IF res > size THEN -1
        ELSE IF null_terminated /\ Rd(buf, data + res - 1) # 0 THEN -1
        ELSE res

\* BsonValue()
EmptyValue == [data |-> NullPtr, tag |-> kMinKey, size |-> 0]

\* BsonValue(data, size, tag)
BsonValue(buf, data, size, tag) ==
    LET real_size == GetValueLength(buf, tag, data, size)
    IN  IF real_size = -1 THEN EmptyValue
        ELSE [data |-> data, tag |-> tag, size |-> real_size]

Empty(v) == v.data = NullPtr

GetInt32(buf, v) == IF v.tag # kInt32 THEN -1 ELSE Rd32(buf, v.data)

\* GetInt64 / GetTimestamp / GetUtcDatetime / GetDouble, as the 8 bytes read
Get8(buf, v) == RdSlice(buf, v.data, 8)

GetBool(buf, v) == IF v.tag # kBool THEN FALSE ELSE Rd(buf, v.data) = 1

GetBinSubstype(buf, v) == IF v.tag = kBindata THEN Rd(buf, v.data + 4) ELSE 0

GetData(v) ==
    CASE v.tag = kObjectId -> v.data
      [] v.tag \in {kUtf8, kJs} -> v.data + 4
      [] v.tag = kBindata -> v.data + 5
      [] OTHER -> NullPtr

\* int32_t subtraction of a small offset; wraps like the two's complement sub
Sub32(a, b) ==
    IF a < b - 2147483647 - 1
    THEN ((a + 2147483647 + 1) - b) + 2147483647 + 1
    ELSE a - b

GetDataSize(v) ==
    CASE v.tag = kObjectId -> 9
      [] v.tag \in {kUtf8, kJs, kBindata} -> Sub32(v.size, 5)
      [] OTHER -> -1

\* while (*curs) { ++curs; if (curs >= end - 1) return <invalid>; }
\* the offset of the null byte, or NullPtr when the loop gives up
RECURSIVE SkipKey(_, _, _)
SkipKey(buf, curs, end) ==
    IF Rd(buf, curs) = 0 THEN curs
    ELSE IF curs + 1 >= end - 1 THEN NullPtr
    ELSE SkipKey(buf, curs + 1, end)

\* while (*curs == *match_cpy && *curs) { ++curs; ++match_cpy; ... }
\* needle is a C string, its terminating null included
RECURSIVE MatchKey(_, _, _, _, _)
MatchKey(buf, curs, end, needle, m) ==
    IF Rd(buf, curs) = needle[m + 1] /\ Rd(buf, curs) # 0
    THEN IF curs + 1 >= end - 1 THEN [curs |-> NullPtr, m |-> m + 1]
         ELSE MatchKey(buf, curs + 1, end, needle, m + 1)
    ELSE [curs |-> curs, m |-> m]

\* GetField that takes a key for the needle when the needle is a prefix of it
RECURSIVE GetFieldLoopPrefix(_, _, _, _)
GetFieldLoopPrefix(buf, curs, end, needle) ==
    IF ~(curs < end) THEN EmptyValue
    ELSE LET tag == ToBsonTag(Rd(buf, curs))
             mk == MatchKey(buf, curs + 1, end, needle, 0)
             matched == needle[mk.m + 1] = 0
             z == SkipKey(buf, mk.curs, end)
             size == GetValueLength(buf, tag, z + 1, end - (z + 1))
         IN  IF tag = kMinKey THEN EmptyValue
             ELSE IF mk.curs = NullPtr THEN EmptyValue
             ELSE IF z = NullPtr THEN EmptyValue
             ELSE IF size = -1 THEN EmptyValue
             ELSE IF matched
             THEN [data |-> z + 1, tag |-> tag, size |-> size]
             ELSE GetFieldLoopPrefix(buf, z + 1 + size, end, needle)

RECURSIVE GetFieldLoop(_, _, _, _)
GetFieldLoop(buf, curs, end, needle) ==
    IF ~(curs < end) THEN EmptyValue
    ELSE LET tag == ToBsonTag(Rd(buf, curs))
             mk == MatchKey(buf, curs + 1, end, needle, 0)
             matched == Rd(buf, mk.curs) = 0 /\ needle[mk.m + 1] = 0
             z == SkipKey(buf, mk.curs, end)
             size == GetValueLength(buf, tag, z + 1, end - (z + 1))
         IN  IF tag = kMinKey THEN EmptyValue
             ELSE IF mk.curs = NullPtr THEN EmptyValue
             ELSE IF z = NullPtr THEN EmptyValue
             ELSE IF size = -1 THEN EmptyValue
             ELSE IF matched
             THEN [data |-> z + 1, tag |-> tag, size |-> size]
             ELSE GetFieldLoop(buf, z + 1 + size, end, needle)

\* BsonValue::GetField(needle)
GetField(buf, v, needle) ==
    IF v.tag # kDocument THEN EmptyValue
    ELSE GetFieldLoop(buf, v.data + 4, v.data + v.size, needle)

\* BsonValueIt::Invalidate
Invalidate(it) ==
    [it EXCEPT !.data = NullPtr, !.tag = kMinKey, !.size = 0,
               !.key = NullPtr]

\* BsonValueIt::MoveTo(curs)
MoveTo(buf, it, curs) ==
    IF curs >= it.end - 1 THEN Invalidate(it)
    ELSE LET tag == ToBsonTag(Rd(buf, curs))
             key == curs + 1
             z == SkipKey(buf, key, it.end)
             size == GetValueLength(buf, tag, z + 1, it.end - (z + 1))
         IN  IF tag = kMinKey THEN Invalidate(it)
             ELSE IF z = NullPtr THEN Invalidate(it)
             ELSE IF size = -1 THEN Invalidate(it)
             ELSE [it EXCEPT !.data = z + 1, !.tag = tag, !.size = size,
                             !.key = key]

\* BsonValueIt(v)
BsonValueIt(buf, v) ==
    LET it0 == [data |-> NullPtr, tag |-> kMinKey, size |-> 0,
                end |-> NullPtr, key |-> NullPtr]
    IN  IF v.tag # kArray /\ v.tag # kDocument THEN Invalidate(it0)
        ELSE MoveTo(buf, [it0 EXCEPT !.end = v.data + v.size], v.data + 4)

\* BsonValueIt::next
ItNext(buf, it) ==
    IF ~Empty(it) THEN MoveTo(buf, it, it.data + it.size) ELSE it

\* BsonValueIt::Done
ItDone(it) == it.tag = kMinKey

\* strlen(key)
RECURSIVE Strlen(_, _)
Strlen(buf, p) == IF Rd(buf, p) \in {0, OutOfBuf} THEN 0
                  ELSE 1 + Strlen(buf, p + 1)

\* bool Print(const BsonValue &v, BsonDocDumper *d): the events d receives
RECURSIVE PrintBsonValue(_, _)
RECURSIVE PrintLoop(_, _)
PrintLoop(buf, it) ==
    IF ItDone(it) THEN <<>>
    ELSE << Ev("field_name", RdSlice(buf, it.key, Strlen(buf, it.key))),
            Ev("field_name", <<>>) >>
         \o PrintBsonValue(buf, it) \o PrintLoop(buf, ItNext(buf, it))

PrintBsonValue(buf, v) ==
    CASE v.tag = kDouble -> << Ev("double", Get8(buf, v)) >>
      [] v.tag = kInt32 -> << Ev("int32", <<GetInt32(buf, v)>>) >>
      [] v.tag = kInt64 -> << Ev("int64", Get8(buf, v)) >>
      [] v.tag = kUtcDatetime -> << Ev("utc_datetime", Get8(buf, v)) >>
      [] v.tag = kTimestamp -> << Ev("timestamp", Get8(buf, v)) >>
      [] v.tag = kBool ->
           << Ev("bool", <<IF GetBool(buf, v) THEN 1 ELSE 0>>) >>
      [] v.tag = kNull -> << Ev("null", <<>>) >>
      [] v.tag \in {kDocument, kArray} ->
           << Ev(IF v.tag = kArray THEN "open_array" ELSE "open_doc", <<>>) >>
           \o PrintLoop(buf, BsonValueIt(buf, v))
           \o << Ev("close", <<>>) >>
      [] v.tag = kObjectId ->
           << Ev("object_id", RdSlice(buf, GetData(v), kObjectIdLen)) >>
      [] v.tag = kUtf8 ->
           << Ev("utf8", RdSlice(buf, GetData(v), GetDataSize(v))),
              Ev("utf8", <<>>) >>
      [] v.tag = kJs ->
           << Ev("js", RdSlice(buf, GetData(v), GetDataSize(v))),
              Ev("js", <<>>) >>
      [] v.tag = kBindata ->
           << Ev("bindata_subtype", <<GetBinSubstype(buf, v)>>),
              Ev("bindata", RdSlice(buf, GetData(v), GetDataSize(v))),
              Ev("bindata", <<>>) >>
      [] OTHER -> <<>>

----------------------------------------------------------------------------
(* The offsets of the buffer the view's functions read (the memcpy of a     *)
(* length prefix, data[res - 1], *curs), collected along the same paths.    *)

\* GetValueLength: memcpy(&res, data, 4) and data[res - 1]
GetValueLengthReads(buf, tag, data, size) ==
    IF tag \notin {kDocument, kArray, kJs, kUtf8, kBindata} \/ size < 5
    THEN {}
    ELSE (data..(data + 3))
         \cup Let(Rd32(buf, data), LAMBDA len :
                  IF len <= 0 \/ tag = kBindata
                     \/ Add32(len, TagLengthOffset(tag)) > size
                  THEN {}
                  ELSE {data + Add32(len, TagLengthOffset(tag)) - 1})

\* while (*curs) { ++curs; ... }: every *curs
RECURSIVE SkipKeyReads(_, _, _)
SkipKeyReads(buf, curs, end) ==
    {curs} \cup (IF Rd(buf, curs) = 0 \/ curs + 1 >= end - 1 THEN {}
                 ELSE SkipKeyReads(buf, curs + 1, end))

\* while (*curs == *match_cpy && *curs) { ... }: every *curs
RECURSIVE MatchKeyReads(_, _, _, _, _)
MatchKeyReads(buf, curs, end, needle, m) ==
    {curs} \cup (IF Rd(buf, curs) = needle[m + 1] /\ Rd(buf, curs) # 0
                    /\ ~(curs + 1 >= end - 1)
                 THEN MatchKeyReads(buf, curs + 1, end, needle, m + 1)
                 ELSE {})

\* the value of one element of GetField's loop, and what follows it
RECURSIVE GetFieldLoopReads(_, _, _, _)
GetFieldValueReads(buf, tag, mk, z, end, needle) ==
    IF z = NullPtr THEN {}
    ELSE GetValueLengthReads(buf, tag, z + 1, end - (z + 1))
         \cup Let(GetValueLength(buf, tag, z + 1, end - (z + 1)),
                  LAMBDA size :
                      IF size = -1
                         \/ (Rd(buf, mk.curs) = 0 /\ needle[mk.m + 1] = 0)
                      THEN {}
                      ELSE GetFieldLoopReads(buf, z + 1 + size, end, needle))

\* BsonValue::GetField: the loop
GetFieldLoopReads(buf, curs, end, needle) ==
    IF ~(curs < end) THEN {}
    ELSE IF ToBsonTag(Rd(buf, curs)) = kMinKey THEN {curs}
    ELSE {curs} \cup MatchKeyReads(buf, curs + 1, end, needle, 0)
         \cup Let(MatchKey(buf, curs + 1, end, needle, 0), LAMBDA mk :
                  IF mk.curs = NullPtr THEN {}
                  ELSE SkipKeyReads(buf, mk.curs, end)
                       \cup GetFieldValueReads(
                                buf, ToBsonTag(Rd(buf, curs)), mk,
                                SkipKey(buf, mk.curs, end), end, needle))

\* BsonValueIt::MoveTo(curs)
MoveToReads(buf, it, curs) ==
    IF curs >= it.end - 1 THEN {}
    ELSE IF ToBsonTag(Rd(buf, curs)) = kMinKey THEN {curs}
    ELSE {curs} \cup SkipKeyReads(buf, curs + 1, it.end)
         \cup Let(SkipKey(buf, curs + 1, it.end), LAMBDA z :
                  IF z = NullPtr THEN {}
                  ELSE GetValueLengthReads(buf, ToBsonTag(Rd(buf, curs)),
                                           z + 1, it.end - (z + 1)))

----------------------------------------------------------------------------
(* Specification Spec: a caller builds one document with the writer, call   *)
(* by call, and then feeds the finished buffer to a streaming parser in     *)
(* chunks of its choice.                                                    *)

\* the decimal representation of n >= 0, as ASCII bytes
RECURSIVE Decimal(_)
Decimal(n) == IF n < 10 THEN <<n + 48>>
              ELSE Decimal(n \div 10) \o <<(n % 10) + 48>>

\* the bytes of a key as they are expected in the document
KeyBytes(key) == IF key.int THEN Decimal(key.n) ELSE key.s

\* the events a chunked callback delivers for the whole payload d when the
\* payload arrives in one piece: the payload if it is not empty, then the
\* call with len = 0
Chunked(k, d) ==
    (IF d = <<>> THEN <<>> ELSE << Ev(k, d) >>) \o << Ev(k, <<>>) >>

\* the events a writer call implies
ImpliedName(key) == Chunked("field_name", KeyBytes(key))

B8a == <<1, 0, 0, 0, 0, 0, 0, 128>>
B8b == <<51, 51, 51, 51, 51, 51, 243, 63>>
Oid == <<1, 2, 3, 4, 5, 6, 7, 8, 9, 10, 11, 255>>
Hi == <<104, 105>>
KeyA == StrKey(<<97>>)
KeyAB == StrKey(<<97, 98>>)
KeyEmpty == StrKey(<<>>)

NoGhost == [ops |-> 0, stack |-> <<>>, closed |-> {}, exp |-> <<>>]

NoMatcher == [t |-> <<>>, m |-> <<>>, fed |-> <<>>]

Init ==
    /\ w = NewWriter
    /\ g = NoGhost
    /\ r = NewReader("doc")
    /\ inp = <<>>
    /\ fed = 0
    /\ ret = 0
    /\ sm = NoMatcher
    /\ pc = "write"

Writing == pc = "write" /\ g.stack # <<>> /\ g.ops < MaxOps

\* the caller's view after a call that appends an element
AfterElement(key, evs) ==
    /\ g' = [g EXCEPT !.ops = @ + 1, !.exp = @ \o ImpliedName(key) \o evs]
    /\ UNCHANGED <<r, inp, fed, ret, sm, pc>>

WDocument ==
    /\ pc = "write" /\ w.pos = 0 /\ g.stack = <<>>
    /\ w' = Document(w)
    /\ g' = [g EXCEPT !.stack = <<w'.pos - 4>>,
                      !.exp = @ \o << Ev("open_doc", <<>>) >>]
    /\ UNCHANGED <<r, inp, fed, ret, sm, pc>>

WPushDocument ==
    /\ Writing
    /\ \E key \in {KeyA, IntKey(10)} :
        /\ w' = PushDocument(w, key)
        /\ g' = [g EXCEPT !.ops = @ + 1,
                          !.stack = <<w'.pos - 4>> \o @,
                          !.exp = @ \o ImpliedName(key)
                                    \o << Ev("open_doc", <<>>) >>]
    /\ UNCHANGED <<r, inp, fed, ret, sm, pc>>

WPushArray ==
    /\ Writing
    /\ \E key \in {KeyA} :
        /\ w' = PushArray(w, key)
        /\ g' = [g EXCEPT !.ops = @ + 1,
                          !.stack = <<w'.pos - 4>> \o @,
                          !.exp = @ \o ImpliedName(key)
                                    \o << Ev("open_array", <<>>) >>]
    /\ UNCHANGED <<r, inp, fed, ret, sm, pc>>

WPop ==
    /\ pc = "write" /\ g.stack # <<>>
    /\ w' = Pop(w)
    /\ g' = [g EXCEPT !.stack = Tail(@),
                      !.closed = @ \cup {<<Head(g.stack), w'.pos>>},
                      !.exp = @ \o << Ev("close", <<>>) >>]
    /\ pc' = IF Tail(g.stack) = <<>> THEN "complete" ELSE "write"
    /\ inp' = IF Tail(g.stack) = <<>> THEN WData(w') ELSE inp
    /\ UNCHANGED <<r, fed, ret, sm>>

WElementInt32 ==
    /\ Writing
    /\ \E kv \in {<<KeyA, 1>>, <<KeyEmpty, -2>>} :
        /\ w' = ElementInt32(w, kv[1], kv[2])
        /\ AfterElement(kv[1], << Ev("int32", <<kv[2]>>) >>)

WElementInt64 ==
    /\ Writing
    /\ w' = ElementInt64(w, KeyA, B8a)
    /\ AfterElement(KeyA, << Ev("int64", B8a) >>)

WElementDouble ==
    /\ Writing
    /\ w' = ElementDouble(w, KeyAB, B8b)
    /\ AfterElement(KeyAB, << Ev("double", B8b) >>)

WElementBool ==
    /\ Writing
    /\ \E kv \in {<<KeyA, TRUE>>, <<KeyA, FALSE>>} :
        /\ w' = ElementBool(w, kv[1], kv[2])
        /\ AfterElement(kv[1], << Ev("bool", <<IF kv[2] THEN 1 ELSE 0>>) >>)

WElementNull ==
    /\ Writing
    /\ \E key \in {IntKey(0)} :
        /\ w' = ElementNull(w, key)
        /\ AfterElement(key, << Ev("null", <<>>) >>)

WElementUtf8 ==
    /\ Writing
    /\ \E kv \in {<<KeyA, Hi>>, <<KeyA, <<>> >>, <<StrKey(<<115>>), Hi>>} :
        /\ w' = ElementUtf8(w, kv[1], kv[2])
        /\ AfterElement(kv[1], Chunked("utf8", kv[2]))

WElementObjectId ==
    /\ Writing
    /\ w' = ElementObjectId(w, KeyA, Oid)
    /\ AfterElement(KeyA, << Ev("object_id", Oid) >>)

WElementUtcDatetime ==
    /\ Writing
    /\ w' = ElementUtcDatetime(w, KeyA, B8a)
    /\ AfterElement(KeyA, << Ev("utc_datetime", B8a) >>)

WElementTimestamp ==
    /\ Writing
    /\ w' = ElementTimestamp(w, KeyA, B8b)
    /\ AfterElement(KeyA, << Ev("timestamp", B8b) >>)

WElementBindata ==
    /\ Writing
    /\ \E sv \in {<<128, <<1, 0>> >>, <<0, <<>> >>} :
        /\ w' = ElementBindata(w, KeyA, sv[1], sv[2])
        /\ AfterElement(KeyA, << Ev("bindata_subtype", <<sv[1]>>) >>
                              \o Chunked("bindata", sv[2]))

\* Clear() at any point after the first call; the caller starts over
WClear ==
    /\ pc \in {"write", "complete"} /\ w.pos > 0 /\ g.ops < MaxOps
    /\ w' = Clear(w)
    /\ g' = [NoGhost EXCEPT !.ops = g.ops + 1]
    /\ pc' = "write"
    /\ inp' = <<>>
    /\ UNCHANGED <<r, fed, ret, sm>>

\* the chunk sizes the caller of Consume may choose
ChunkSizes == {n \in 1..(Len(inp) - fed) : n <= MaxChunk \/ n = Len(inp) - fed}

\* one Consume call on the next n bytes of the input
RConsume ==
    /\ pc \in {"complete", "read"} /\ fed < Len(inp)
    /\ Len(inp) <= MaxInput
    /\ \E n \in ChunkSizes :
        \E res \in {Consume(r, Slice(inp, fed, fed + n))} :
            /\ r' = res.r
            /\ ret' = res.ret
            /\ fed' = fed + n
    /\ pc' = "read"
    /\ UNCHANGED <<w, g, inp, sm>>

Next ==
    \/ WDocument \/ WPushDocument \/ WPushArray \/ WPop
    \/ WElementInt32 \/ WElementInt64 \/ WElementDouble \/ WElementBool
    \/ WElementNull \/ WElementUtf8 \/ WElementObjectId
    \/ WElementUtcDatetime \/ WElementTimestamp \/ WElementBindata
    \/ WClear
    \/ RConsume

Spec == Init /\ [][Next]_vars

----------------------------------------------------------------------------
(* Properties of the writer, the streaming parser and the view (Spec) *)

\* the parse of a whole buffer in one Consume call by a fresh parser
OneCall(buf) == Consume(NewReader("doc"), buf)

\* the events with the consecutive chunks of one field name or of one
\* string value concatenated
RECURSIVE Merge(_)
Merge(evs) ==
    IF Len(evs) < 2 THEN evs
    ELSE LET a == evs[1]
             b == evs[2]
         IN  IF a.k = b.k /\ a.k \in {"field_name", "utf8", "js", "bindata"}
                /\ a.d # <<>> /\ b.d # <<>>
             THEN Merge(<< Ev(a.k, a.d \o b.d) >> \o Tail(Tail(evs)))
             ELSE << a >> \o Merge(Tail(evs))

\* the reader without the events its sink has recorded
State(rd) == [rd EXCEPT !.ev = <<>>]

\* C1: parsing the bytes of a finished writer sequence yields exactly the
\* events the writer calls imply, and the parser is Done exactly after the
\* last byte.
C1_RoundTrip ==
    /\ pc = "complete" =>
         /\ OneCall(inp).r.ev = g.exp
         /\ OneCall(inp).ret = Len(inp)
         /\ OneCall(inp).r.state = "kDone"
    /\ pc = "read" => (Done(r) <=> fed = Len(inp))

\* C2: whatever the chunks, the events (chunks of one name or string
\* concatenated) and the final state are those of a single Consume call.
C2_ChunkInvariance ==
    (pc = "read" /\ fed = Len(inp)) =>
        /\ Merge(r.ev) = Merge(OneCall(inp).r.ev)
        /\ State(r) = State(OneCall(inp).r)

\* a finished parse in which a field name or a string arrived in pieces
C2_Witness ==
    /\ pc = "read" /\ fed = Len(inp) /\ r.state = "kDone"
    /\ Merge(r.ev) # r.ev
    /\ \E i \in 1..Len(r.ev) : r.ev[i].k = "utf8" /\ Len(r.ev[i].d) = 1

\* C3: in a finished document the first four bytes hold len(), the last
\* byte is 0 and the length prefix of every container is its size.
C3_LengthConsistency ==
    pc = "complete" =>
        /\ RdLE32(WData(w), 0) = w.pos
        /\ At(WData(w), w.pos - 1) = 0
        /\ \A c \in g.closed :
             /\ RdLE32(WData(w), c[1]) = c[2] - c[1]
             /\ At(WData(w), c[2] - 1) = 0

\* a finished document with a nested container
C3_Witness ==
    /\ pc = "complete"
    /\ \E c \in g.closed : c[1] > 0

\* the n bytes of the two's complement of v, least significant byte first
BytesLE(v, n) ==
    [i \in 1..n |->
        IF v >= 0 THEN (v \div (256 ^ (i - 1))) % 256
        ELSE 255 - (((-v - 1) \div (256 ^ (i - 1))) % 256)]

\* the tag byte of the element a value event stands for
TagByteOf(k) ==
    CASE k = "double" -> 1
      [] k = "utf8" -> 2
      [] k = "bindata_subtype" -> 5
      [] k = "object_id" -> 7
      [] k = "bool" -> 8
      [] k = "utc_datetime" -> 9
      [] k = "null" -> 10
      [] k = "int32" -> 16
      [] k = "timestamp" -> 17
      [] k = "int64" -> 18

\* the payload bytes of the element the value events vs stand for
PayloadOf(vs) ==
    CASE vs[1].k = "int32" -> BytesLE(vs[1].d[1], 4)
      [] vs[1].k = "null" -> <<>>
      [] vs[1].k = "utf8" ->
           LET s == IF Len(vs) = 2 THEN vs[1].d ELSE <<>>
           IN  BytesLE(Len(s) + 1, 4) \o s \o <<0>>
      [] vs[1].k = "bindata_subtype" ->
           LET d == IF Len(vs) = 3 THEN vs[2].d ELSE <<>>
           IN  BytesLE(Len(d), 4) \o vs[1].d \o d
      [] OTHER -> vs[1].d

\* the bytes of the element the events evs (name, then value) stand for:
\* tag byte, key bytes, 0x00, payload
EncodingOf(evs) ==
    LET key == evs[1].d
        vs == SubSeq(evs, IF key = <<>> THEN 2 ELSE 3, Len(evs))
    IN  <<TagByteOf(vs[1].k)>> \o key \o <<0>> \o PayloadOf(vs)

\* one Element call: the stack of open containers is as before
ElementStep ==
    pc = "write" /\ g.stack # <<>> /\ g'.stack = g.stack
    /\ g'.ops = g.ops + 1

\* C23: every Element call appends exactly the tag byte, the key bytes, 0x00
\* and the payload (fixed-width scalars little-endian; a string of n bytes
\* as int32 n + 1, the bytes, 0x00; binary data of n bytes as int32 n, the
\* subtype, the bytes; nothing for null) and leaves the bytes before them as
\* they were; the empty document is 05 00 00 00 00, {"a": int32 1} is
\* 0C 00 00 00 10 61 00 01 00 00 00 00 and {"s": "hi"} is
\* 0F 00 00 00 02 73 00 03 00 00 00 68 69 00 00.
C23_ElementEncoding ==
    [][/\ ElementStep =>
            LET enc == EncodingOf(SubSeq(g'.exp, Len(g.exp) + 1,
                                         Len(g'.exp)))
            IN  /\ w'.pos = w.pos + Len(enc)
                /\ Slice(w'.data, w.pos, w'.pos) = enc
                /\ Slice(w'.data, 0, w.pos) = Slice(w.data, 0, w.pos)
       /\ (pc' = "complete"
             /\ g'.exp = << Ev("open_doc", <<>>), Ev("close", <<>>) >>) =>
            inp' = <<5, 0, 0, 0, 0>>
       /\ (pc' = "complete"
             /\ g'.exp = << Ev("open_doc", <<>>) >> \o ImpliedName(KeyA)
                         \o << Ev("int32", <<1>>), Ev("close", <<>>) >>) =>
            inp' = <<12, 0, 0, 0, 16, 97, 0, 1, 0, 0, 0, 0>>
       /\ (pc' = "complete"
             /\ g'.exp = << Ev("open_doc", <<>>) >>
                         \o ImpliedName(StrKey(<<115>>))
                         \o Chunked("utf8", Hi) \o << Ev("close", <<>>) >>) =>
            inp' = <<15, 0, 0, 0, 2, 115, 0, 3, 0, 0, 0, 104, 105, 0, 0>>
      ]_vars

\* the document {"s": "hi"} has been finished
C23_Witness ==
    /\ pc = "complete"
    /\ g.exp = << Ev("open_doc", <<>>) >> \o ImpliedName(StrKey(<<115>>))
               \o Chunked("utf8", Hi) \o << Ev("close", <<>>) >>
    /\ w.pos = 15

\* C9: walking the view of a finished document yields the events of the
\* streaming parse of the same bytes.
C9_ViewStreamEquivalence ==
    pc = "complete" =>
        PrintBsonValue(inp, BsonValue(inp, 0, Len(inp), kDocument))
            = OneCall(inp).r.ev

\* the children the iterator yields, in order
RECURSIVE Children(_, _)
Children(buf, it) ==
    IF ItDone(it) THEN <<>>
    ELSE << it >> \o Children(buf, ItNext(buf, it))

\* the view itself and the document views below it
RECURSIVE DocViews(_, _)
RECURSIVE DocViewsOf(_, _)
DocViewsOf(buf, its) ==
    IF its = <<>> THEN {}
    ELSE DocViews(buf, [data |-> its[1].data, tag |-> its[1].tag,
                        size |-> its[1].size])
         \cup DocViewsOf(buf, Tail(its))

DocViews(buf, v) ==
    IF v.tag \in {kDocument, kArray}
    THEN (IF v.tag = kDocument THEN {v} ELSE {})
         \cup DocViewsOf(buf, Children(buf, BsonValueIt(buf, v)))
    ELSE {}

\* the first child whose key is the needle, as a view; empty if none
RECURSIVE FirstWithKey(_, _, _)
FirstWithKey(buf, its, needle) ==
    IF its = <<>> THEN EmptyValue
    ELSE IF RdSlice(buf, its[1].key, Len(needle)) = needle
    THEN [data |-> its[1].data, tag |-> its[1].tag, size |-> its[1].size]
    ELSE FirstWithKey(buf, Tail(its), needle)

\* the keys looked up, as C strings
Needles ==
    { <<0>>, <<97, 0>>, <<97, 98, 0>>, <<49, 48, 0>>, <<48, 0>>,
      <<98, 0>>, <<97, 98, 99, 0>>, <<49, 0>> }

\* C10: GetField(k) is the first child the iterator yields whose key is k,
\* and is empty when there is none.
C10_FieldLookup ==
    pc = "complete" =>
        \A v \in DocViews(inp, BsonValue(inp, 0, Len(inp), kDocument)) :
            \A needle \in Needles :
                GetField(inp, v, needle)
                    = FirstWithKey(inp, Children(inp, BsonValueIt(inp, v)),
                                   needle)

\* a document in which a key is found behind a child with another key, and
\* in which a key that is a prefix of a present key is absent
C10_Witness ==
    /\ pc = "complete"
    /\ LET v == BsonValue(inp, 0, Len(inp), kDocument)
           cs == Children(inp, BsonValueIt(inp, v))
       IN  /\ Len(cs) = 2
           /\ GetField(inp, v, <<97, 0>>) # EmptyValue
           /\ GetField(inp, v, <<97, 0>>).data = cs[2].data
           /\ GetField(inp, v, <<97, 98, 0>>) # EmptyValue

----------------------------------------------------------------------------
(* Specification SpecMatcher: a StringMatcher over a sorted keyword table   *)
(* is given bytes one AddChar call at a time, and is Reset.                 *)

\* number of keywords of a table
MaxKeywords == 3
\* length of the longest keyword
MaxWord == 2
\* number of bytes given to the matcher before the terminating null
MaxFed == 3

\* the bytes keywords are made of, and one more byte that is in no keyword
KwBytes == {97, 98}
FeedBytes == KwBytes \cup {99, 0}

Words == UNION { [1..n -> KwBytes] : n \in 0..MaxWord }

\* strcmp(a, b) < 0
RECURSIVE LexLess(_, _)
LexLess(a, b) ==
    IF b = <<>> THEN FALSE
    ELSE IF a = <<>> THEN TRUE
    ELSE IF Head(a) # Head(b) THEN Head(a) < Head(b)
    ELSE LexLess(Tail(a), Tail(b))

\* the sorted tables without duplicates; the action of a keyword is its
\* index, the default action is 0
SortedTables ==
    { [k |-> [i \in 1..Len(ws) |-> Kw(ws[i], i)], default |-> 0] :
        ws \in { x \in UNION { [1..n -> Words] : n \in 1..MaxKeywords } :
                   \A i \in 1..(Len(x) - 1) : LexLess(x[i], x[i + 1]) } }

InitMatcher ==
    /\ w = NewWriter
    /\ g = NoGhost
    /\ r = NewReader("doc")
    /\ inp = <<>>
    /\ fed = 0
    /\ ret = 0
    /\ \E t \in SortedTables : sm = [t |-> t, m |-> NewMatcher(t), fed |-> <<>>]
    /\ pc = "match"

Terminated(s) == s # <<>> /\ s[Len(s)] = 0

\* sm.AddChar(c)
MAddChar ==
    /\ pc = "match" /\ ~Terminated(sm.fed)
    /\ \E c \in FeedBytes :
        /\ c = 0 \/ Len(sm.fed) < MaxFed
        /\ sm' = [sm EXCEPT !.m = AddChar(sm.t, sm.m, c),
                            !.fed = Append(@, c)]
    /\ UNCHANGED <<w, g, r, inp, fed, ret, pc>>

\* sm.Reset()
MReset ==
    /\ pc = "match" /\ sm.fed # <<>>
    /\ sm' = [sm EXCEPT !.m = Reset(sm.t, sm.m), !.fed = <<>>]
    /\ UNCHANGED <<w, g, r, inp, fed, ret, pc>>

NextMatcher == MAddChar \/ MReset

SpecMatcher == InitMatcher /\ [][NextMatcher]_vars

\* C8: on a sorted table, a keyword followed by the null byte gives the
\* keyword's action, any other string followed by the null byte gives the
\* default, and so does every string that is not terminated yet.
C8_TrieMatcher ==
    pc = "match" =>
        LET hits == { i \in 1..Len(sm.t.k) : sm.t.k[i].match = sm.fed }
        IN  IF Terminated(sm.fed) /\ hits # {}
            THEN \A i \in hits : GetResult(sm.t, sm.m) = sm.t.k[i].val
            ELSE GetResult(sm.t, sm.m) = sm.t.default

\* a keyword that is a proper prefix of the next keyword has been matched
C8_Witness ==
    /\ pc = "match" /\ Terminated(sm.fed) /\ Len(sm.fed) = 2
    /\ Len(sm.t.k) = 3
    /\ sm.t.k[2].match = sm.fed
    /\ Len(sm.t.k[3].match) = 3 /\ sm.t.k[3].match[1] = sm.fed[1]
    /\ GetResult(sm.t, sm.m) = 2

----------------------------------------------------------------------------
(* Specification SpecFuzz: a streaming parser is fed a document in which    *)
(* one byte has been replaced, chunk by chunk; the caller keeps calling     *)
(* Consume whatever the parser answers, and calls it once more with bytes   *)
(* of its own after the input.  g.prev is the parser before the last call,  *)
(* g.c the bytes that call was given, and g.kind says how the input was     *)
(* corrupted: one byte replaced, or the last byte dropped.                  *)

\* the documents that are corrupted
FuzzDocs ==
    { WData(Pop(ElementUtf8(Document(NewWriter), KeyA, Hi))),
      WData(Pop(Pop(ElementInt32(PushDocument(Document(NewWriter), KeyA),
                                 KeyEmpty, -2)))),
      WData(Pop(ElementBindata(Document(NewWriter), KeyA, 128, <<1, 0>>))),
      WData(Pop(ElementNull(ElementBool(Document(NewWriter), KeyA, TRUE),
                            IntKey(0)))),
      WData(Pop(Pop(ElementInt64(PushArray(Document(NewWriter), KeyA),
                                 IntKey(0), B8a)))),
      [WData(Pop(ElementUtf8(Document(NewWriter), KeyA, Hi)))
           EXCEPT ![5] = kJs] }

\* the bytes a corrupted position may hold
FuzzBytes == {0, 1, 2, 5, 11, 13, 15, 16, 127, 128, 255}

\* what the caller passes in the call after the input
ExtraChunks == { <<>>, <<0>>, <<16, 0>>, <<255, 255>> }

\* scenario S3, the document {"s": "hi"}
S3 == WData(Pop(ElementUtf8(Document(NewWriter), StrKey(<<115>>), Hi)))

\* scenario S5, S3 without its last byte
S5 == SubSeq(S3, 1, Len(S3) - 1)

InitFuzz ==
    /\ w = NewWriter
    /\ r = NewReader("doc")
    /\ \/ /\ \E d \in FuzzDocs : \E i \in 1..Len(d) : \E b \in FuzzBytes :
               inp = [d EXCEPT ![i] = b]
          /\ g = [prev |-> NewReader("doc"), c |-> <<>>, kind |-> "mutated"]
       \/ /\ inp = S5
          /\ g = [prev |-> NewReader("doc"), c |-> <<>>, kind |-> "truncated"]
    /\ fed = 0
    /\ ret = 0
    /\ sm = NoMatcher
    /\ pc = "fuzz"

\* one Consume call on the next n bytes of the input
FConsume ==
    /\ pc = "fuzz" /\ fed < Len(inp)
    /\ \E n \in ChunkSizes :
        \E res \in {Consume(r, Slice(inp, fed, fed + n))} :
            /\ r' = res.r
            /\ ret' = res.ret
            /\ fed' = fed + n
            /\ g' = [g EXCEPT !.prev = r, !.c = Slice(inp, fed, fed + n)]
    /\ UNCHANGED <<w, inp, sm, pc>>

\* one Consume call behind the input
FExtra ==
    /\ pc = "fuzz" /\ fed = Len(inp)
    /\ \E c \in ExtraChunks :
        \E res \in {Consume(r, c)} :
            /\ r' = res.r
            /\ ret' = res.ret
            /\ g' = [g EXCEPT !.prev = r, !.c = c]
    /\ pc' = "extra"
    /\ UNCHANGED <<w, inp, fed, sm>>

NextFuzz == FConsume \/ FExtra

SpecFuzz == InitFuzz /\ [][NextFuzz]_vars

\* the positions of the error events
ErrorEvents(evs) == { i \in 1..Len(evs) : evs[i].k = "error" }

\* C4: a Consume call on a parser that is in Error or Done returns 0 and
\* changes nothing; the parser is in Error exactly when it has emitted an
\* error event, which is then the only one and the last event.
C4_Absorbing ==
    pc \in {"fuzz", "extra"} =>
        /\ Done(g.prev) => (r = g.prev /\ ret = 0)
        /\ r.state = "kError" =>
             /\ Cardinality(ErrorEvents(r.ev)) = 1
             /\ r.ev[Len(r.ev)].k = "error"
        /\ r.state # "kError" => ErrorEvents(r.ev) = {}

\* Consume has been called on a parser that had latched Error after some
\* events, and on one that was Done
C4_Witness ==
    /\ pc = "extra" /\ g.prev.state = "kError" /\ Len(r.ev) > 2

C4_WitnessDone ==
    /\ pc = "extra" /\ g.prev.state = "kDone" /\ ret = 0

\* C11: once every byte of a document with one byte replaced has been fed,
\* the parser is in Done or in Error.
C11_FuzzTermination ==
    (pc = "fuzz" /\ g.kind = "mutated" /\ fed = Len(inp)) => Done(r)

\* the events a call has added
NewEvents == SubSeq(r.ev, Len(g.prev.ev) + 1, Len(r.ev))

\* the containers open after the first n events
OpenAfter(evs, n) ==
    Cardinality({i \in 1..n : evs[i].k \in {"open_doc", "open_array"}})
    - Cardinality({i \in 1..n : evs[i].k = "close"})

\* C13: a Consume call with len > 0 on a parser that is neither Done nor in
\* Error returns -1 exactly when the call latches Error; otherwise it
\* returns len when the parser is not Done after the call, and when the call
\* reaches Done it returns the number of bytes up to and including the
\* terminator that closed the top-level document and leaves the rest
\* unconsumed.  A call with len = 0 returns 0 and changes nothing.
C13_ConsumeReturn ==
    pc \in {"fuzz", "extra"} =>
        /\ Len(g.c) = 0 => (r = g.prev /\ ret = 0)
        /\ (Len(g.c) > 0 /\ ~Done(g.prev)) =>
             /\ (ret = -1) <=> (r.state = "kError")
             /\ r.state \notin {"kError", "kDone"} =>
                  (ret = Len(g.c) /\ r.bytes_seen = g.prev.bytes_seen + ret)
             /\ r.state = "kDone" =>
                  /\ ret \in 1..Len(g.c)
                  /\ g.c[ret] = 0
                  /\ r.bytes_seen = g.prev.bytes_seen + ret
                  /\ r.ev[Len(r.ev)].k = "close"
                  /\ OpenAfter(r.ev, Len(r.ev)) = 0
                  /\ \A n \in 1..(Len(r.ev) - 1) : OpenAfter(r.ev, n) > 0

\* a call reached Done before the end of its bytes, a call latched Error,
\* and a call was made with no bytes
C13_Witness ==
    /\ pc = "fuzz" /\ ~Done(g.prev) /\ r.state = "kDone"
    /\ ret > 0 /\ ret < Len(g.c)

\* C14 (scenario S5): fed the bytes of {"s": "hi"} without the final 0x00,
\* the parser latches Error for the missing terminator.
C14_TruncationS5 ==
    (pc = "fuzz" /\ g.kind = "truncated" /\ fed = Len(inp)) =>
        r.state = "kError"

\* the last call completed the 4 bytes of a length prefix or an int32
ReadsLength ==
    /\ pc \in {"fuzz", "extra"}
    /\ g.prev.state = "kReadInt32"
    /\ g.prev.partial + Len(g.c) >= 4

\* the int32 that call has read
LengthRead == RdLE32(SubSeq(g.prev.scratch_, 1, g.prev.partial) \o g.c, 0)

\* C15: the parser latches Error whenever the length prefix of a document or
\* an array, the outermost or a nested one, is not positive, and emits no
\* open_doc/open_array for it.
C15_DocumentLengthCheck ==
    (ReadsLength /\ g.prev.typ \in {kDocument, kArray} /\ LengthRead <= 0) =>
        /\ r.state = "kError"
        /\ \A i \in DOMAIN NewEvents :
             NewEvents[i].k \notin {"open_doc", "open_array"}

\* C16: a utf8 or js value whose length prefix L is not positive latches
\* Error before any payload event; a bindata value latches Error exactly when
\* L < 0 and is accepted with an empty payload when L = 0; the byte after the
\* L - 1 payload bytes of a utf8 or js value must be 0x00 or the parser
\* latches Error, and bindata has no terminator byte.
C16_StringRules ==
    /\ (ReadsLength /\ g.prev.typ \in {kUtf8, kJs}) =>
         /\ LengthRead <= 0 =>
              (r.state = "kError"
               /\ NewEvents = << Ev("error", MsgNegativeLength) >>)
         /\ (LengthRead > 0 /\ g.prev.partial + Len(g.c) = 4) =>
              /\ r.partial = LengthRead - 1
              /\ r.state = IF LengthRead > 1 THEN "kReadString"
                           ELSE "kReadStringTerm"
              /\ \A i \in DOMAIN NewEvents : NewEvents[i].d = <<>>
    /\ (ReadsLength /\ g.prev.typ = kBindata) =>
         /\ (LengthRead < 0) <=>
              (NewEvents # <<>> /\ NewEvents[1].k = "error")
         /\ LengthRead < 0 =>
              (r.state = "kError"
               /\ NewEvents = << Ev("error", MsgNegativeLength) >>)
         /\ (LengthRead >= 0 /\ g.prev.partial + Len(g.c) = 4) =>
              (r.state = "kReadBinSubtype" /\ r.partial = LengthRead)
         /\ (LengthRead = 0 /\ g.prev.partial + Len(g.c) = 5) =>
              /\ r.state = "kFieldTyp"
              /\ NewEvents[1].k = "bindata_subtype"
              /\ \A i \in 2..Len(NewEvents) :
                   NewEvents[i] = Ev("bindata", <<>>)
    /\ (pc \in {"fuzz", "extra"} /\ g.prev.state = "kReadString"
          /\ g.prev.partial = Len(g.c)) =>
         r.state = IF g.prev.typ = kBindata THEN "kFieldTyp"
                   ELSE "kReadStringTerm"
    /\ (pc \in {"fuzz", "extra"} /\ g.prev.state = "kReadStringTerm"
          /\ Len(g.c) > 0) =>
         IF g.c[1] # 0
         THEN r.state = "kError"
              /\ NewEvents = << Ev("error", MsgExpectedNull) >>
         ELSE Ev("error", MsgExpectedNull)
                  \notin {NewEvents[i] : i \in DOMAIN NewEvents}

\* a bindata value with L = 0 has been accepted, and the byte after it was
\* taken for the next tag
C16_Witness ==
    /\ ReadsLength /\ g.prev.typ = kBindata /\ LengthRead = 0
    /\ g.prev.partial + Len(g.c) = 5
    /\ r.state = "kFieldTyp"

\* the tag bytes that have a value the parser reads
ValueTagBytes == {kDouble, kUtf8, kDocument, kArray, kBindata, kObjectId,
                  kBool, kUtcDatetime, kNull, kJs, kInt32, kTimestamp,
                  kInt64}

\* Regexp, ScopedJs, MinKey, MaxKey and the bytes outside the tag set
BadTagBytes == (1..255) \ ValueTagBytes

\* the call adds nothing but the element's name and the error
OnlyNameAndError ==
    \A i \in DOMAIN NewEvents : NewEvents[i].k \in {"field_name", "error"}

\* C17: a byte 0x00 where a tag is expected closes the current container
\* (close is emitted, the depth decremented) and is never reported as an
\* invalid tag; a tag byte that is Regexp, ScopedJs, MinKey, MaxKey or outside
\* the tag set makes the parser latch Error, once the element's name has been
\* read, without a value event for that element.
C17_TagHandling ==
    pc \in {"fuzz", "extra"} =>
        /\ (g.prev.state = "kFieldTyp" /\ Len(g.c) > 0 /\ g.c[1] = 0) =>
             /\ NewEvents # <<>> /\ NewEvents[1] = Ev("close", <<>>)
             /\ Len(g.c) = 1 =>
                  /\ NewEvents = << Ev("close", <<>>) >>
                  /\ r.depth = g.prev.depth - 1
                  /\ r.state = IF r.depth = 0 THEN "kDone" ELSE "kFieldTyp"
        /\ (g.prev.state = "kFieldTyp" /\ Len(g.c) > 0
              /\ g.c[1] \in BadTagBytes) =>
             /\ OnlyNameAndError
             /\ r.state = IF \E i \in 2..Len(g.c) : g.c[i] = 0
                          THEN "kError" ELSE "kFieldName"
        /\ (g.prev.state = "kFieldName" /\ Len(g.c) > 0
              /\ g.prev.typ \in {kRegexp, kScopedJs, kMinKey, kMaxKey}) =>
             /\ OnlyNameAndError
             /\ r.state = IF \E i \in 1..Len(g.c) : g.c[i] = 0
                          THEN "kError" ELSE "kFieldName"

\* a ScopedJs tag and the end of its name have been fed: the parser is in
\* Error
C17_Witness ==
    /\ pc = "fuzz" /\ g.prev.state = "kFieldTyp" /\ Len(g.c) = 2
    /\ g.c[1] = kScopedJs /\ g.c[2] = 0 /\ r.state = "kError"

----------------------------------------------------------------------------
(* Specification SpecResp: a response parser, a ResponseReader with a       *)
(* recording sink or an OpResponseParser, is fed a response chunk by chunk: *)
(* the 36 bytes of a header and number_returned documents.  g holds what    *)
(* the server has sent, the documents, each as the sequence of its fields,  *)
(* and the size of the chunks the caller reads.                             *)

\* number of top-level fields of the document of a response
MaxFields == 2
\* number of documents of a response
MaxDocs == 2

\* a field of a document: i is the value of an int32 field, s the value of
\* a utf8 field, sub the fields of a nested document or array
Field(name, kind, i, s, sub) ==
    [name |-> name, kind |-> kind, i |-> i, s |-> s, sub |-> sub]

Int32Field(name, i) == Field(name, "int32", i, <<>>, <<>>)
Utf8Field(name, s) == Field(name, "utf8", 0, s, <<>>)
DocField(name, sub) == Field(name, "doc", 0, <<>>, sub)
ArrayField(name, sub) == Field(name, "array", 0, <<>>, sub)

RECURSIVE WriteFields(_, _)
WriteFields(wr, fs) ==
    IF fs = <<>> THEN wr
    ELSE LET f == Head(fs)
             key == StrKey(f.name)
         IN  CHOOSE res \in
                 { WriteFields(w1, Tail(fs)) : w1 \in
                     { CASE f.kind = "int32" -> ElementInt32(wr, key, f.i)
                         [] f.kind = "utf8" -> ElementUtf8(wr, key, f.s)
                         [] f.kind = "doc" ->
                              Pop(WriteFields(PushDocument(wr, key), f.sub))
                         [] f.kind = "array" ->
                              Pop(WriteFields(PushArray(wr, key), f.sub)) } } :
                 TRUE

\* the bytes of the document with these fields
DocOf(fs) == WData(Pop(WriteFields(Document(NewWriter), fs)))

\* the events the fields imply
RECURSIVE EventsOfFields(_)
EventsOfFields(fs) ==
    IF fs = <<>> THEN <<>>
    ELSE LET f == Head(fs)
             evs == CASE f.kind = "int32" -> << Ev("int32", <<f.i>>) >>
                      [] f.kind = "utf8" -> Chunked("utf8", f.s)
                      [] f.kind = "doc" ->
                           << Ev("open_doc", <<>>) >> \o EventsOfFields(f.sub)
                           \o << Ev("close", <<>>) >>
                      [] f.kind = "array" ->
                           << Ev("open_array", <<>>) >> \o EventsOfFields(f.sub)
                           \o << Ev("close", <<>>) >>
         IN  ImpliedName(StrKey(f.name)) \o evs \o EventsOfFields(Tail(fs))

NameOk == <<111, 107>>
NameN == <<110>>
NameNModified == <<110, 77, 111, 100, 105, 102, 105, 101, 100>>
NameNM == <<110, 77>>
NameX == <<120>>
NameD == <<100>>
NameWriteErrors == <<119, 114, 105, 116, 101, 69, 114, 114, 111, 114, 115>>
NameIndex == <<105, 110, 100, 101, 120>>
NameCode == <<99, 111, 100, 101>>
NameErrmsg == <<101, 114, 114, 109, 115, 103>>
Dup == <<100, 117, 112>>

\* the top-level fields of an acknowledgement
FieldPool ==
    { Int32Field(NameOk, 1), Int32Field(NameN, 3),
      Int32Field(NameNModified, 2), Int32Field(NameNM, 5),
      Int32Field(NameX, 7),
      DocField(NameD, << Int32Field(NameN, 9) >>),
      DocField(NameN, << Int32Field(NameX, 8) >>) }

\* the documents with up to MaxFields fields of different names
AckDocs ==
    { fs \in UNION { [1..n -> FieldPool] : n \in 0..MaxFields } :
        \A i, j \in 1..Len(fs) : i # j => fs[i].name # fs[j].name }

\* {ok: 0, writeErrors: [{index: 0, code: 11000, errmsg: "dup"}]}
WriteErrorDoc ==
    << Int32Field(NameOk, 0),
       ArrayField(NameWriteErrors,
             << DocField(<<48>>,
                      << Int32Field(NameIndex, 0),
                         Int32Field(NameCode, 11000),
                         Utf8Field(NameErrmsg, Dup) >>) >>) >>

NameErrInfo == <<101, 114, 114, 73, 110, 102, 111>>
Xyz == <<120, 121, 122>>

\* {writeErrors: [{errmsg: "dup", errInfo: "xyz"}, {errInfo: "dup"}]}
WriteErrorInfoDoc ==
    << ArrayField(NameWriteErrors,
             << DocField(<<48>>,
                      << Utf8Field(NameErrmsg, Dup),
                         Utf8Field(NameErrInfo, Xyz) >>),
                DocField(<<49>>,
                      << Utf8Field(NameErrInfo, Dup) >>) >>) >>

\* the documents of a response with several documents
BatchDocs == { <<>>, << Int32Field(NameOk, 1) >> }

Responses ==
    { << d >> : d \in AckDocs \cup {WriteErrorDoc, WriteErrorInfoDoc} }
    \cup UNION { [1..n -> BatchDocs] : n \in 0..MaxDocs }

\* a ResponseHeader with number_returned = n
Header(n) == [i \in 1..(kHeaderLen - 4) |-> 0] \o LE32(n)

RECURSIVE Concat(_)
Concat(ss) == IF ss = <<>> THEN <<>> ELSE Head(ss) \o Concat(Tail(ss))

\* the chunk sizes a caller may read the socket with: small ones, the size
\* of the header, one byte more, and the whole response
RespChunks(len) == (1..MaxChunk) \cup {kHeaderLen, kHeaderLen + 1, len}

InitResp ==
    /\ w = NewWriter
    /\ \E docs \in Responses : \E impl \in {"resp", "op"} :
        /\ r = NewReader(impl)
        /\ inp = Header(Len(docs))
                 \o Concat([i \in 1..Len(docs) |-> DocOf(docs[i])])
        /\ \E k \in RespChunks(Len(inp)) : g = [docs |-> docs, k |-> k]
    /\ fed = 0
    /\ ret = 0
    /\ sm = NoMatcher
    /\ pc = "resp"

\* one Consume call on the next bytes of the response: the first call gets
\* up to g.k bytes, every later call g.k bytes or what is left
RespConsume ==
    /\ pc = "resp" /\ fed < Len(inp)
    /\ \E n \in 1..Min(g.k, Len(inp) - fed) :
        /\ fed = 0 \/ n = Min(g.k, Len(inp) - fed)
        /\ \E res \in {Consume(r, Slice(inp, fed, fed + n))} :
               /\ r' = res.r
               /\ ret' = res.ret
               /\ fed' = fed + n
    /\ UNCHANGED <<w, g, inp, sm, pc>>

NextResp == RespConsume

SpecResp == InitResp /\ [][NextResp]_vars

\* the events of a whole response
Framed(docs) ==
    << Ev("start", Header(Len(docs))) >>
    \o Concat([i \in 1..Len(docs) |->
                 << Ev("document_start", <<i - 1>>), Ev("open_doc", <<>>) >>
                 \o EventsOfFields(docs[i])
                 \o << Ev("close", <<>>), Ev("document_done", <<>>) >>])
    \o << Ev("stop", <<>>) >>

\* C5: nothing is emitted before the 36th byte of the header; from then on
\* start(header) is the first event and the only start; stop is emitted at
\* most once, as the last event, and exactly when the parser is Done; and
\* after the last byte the events are start, then document_start(i), the
\* events of document i and document_done for each i in order, then stop.
C5_FramingOrder ==
    pc = "resp" =>
        /\ fed < kHeaderLen => r.ev = <<>>
        /\ fed >= kHeaderLen =>
             /\ r.ev # <<>>
             /\ r.ev[1] = Ev("start", Header(Len(g.docs)))
        /\ \A i \in 2..Len(r.ev) : r.ev[i].k # "start"
        /\ \A i \in 1..(Len(r.ev) - 1) : r.ev[i].k # "stop"
        /\ r.state = "kDone" <=> (r.ev # <<>> /\ r.ev[Len(r.ev)].k = "stop")
        /\ fed = Len(inp) =>
             /\ Merge(r.ev) = Framed(g.docs)
             /\ r.state = "kDone"

\* a response of two documents has been parsed in pieces
C5_Witness ==
    /\ pc = "resp" /\ fed = Len(inp) /\ r.state = "kDone"
    /\ Len(g.docs) = 2 /\ g.docs[2] # <<>>
    /\ Merge(r.ev) # r.ev

\* the value of the top-level int32 field of that name, 0 if there is none
TopLevel(fs, name) ==
    IF \E i \in 1..Len(fs) : fs[i].name = name /\ fs[i].kind = "int32"
    THEN (CHOOSE f \in { fs[i] : i \in 1..Len(fs) } :
              f.name = name /\ f.kind = "int32").i
    ELSE 0

\* C6: the response {ok: 0, writeErrors: [{index: 0, code: 11000,
\* errmsg: "dup"}]} yields exactly one error, of type WriteError, with code
\* 11000, index 0 and msg "dup".
C6_WriteErrorExtraction ==
    (pc = "resp" /\ r.impl = "op" /\ g.docs = << WriteErrorDoc >>
     /\ fed = Len(inp)) =>
        /\ Len(r.res.errors) = 1
        /\ r.res.errors[1].type = "WriteError"
        /\ r.res.errors[1].code = 11000
        /\ r.res.errors[1].index = 0
        /\ r.res.errors[1].msg = Dup

\* C7: after a response with one document of top-level int32 fields, the
\* result holds the value of ok, n and nModified where present and 0 where
\* absent, and no error; nested int32 values change none of them.
C7_TopLevelExtraction ==
    (pc = "resp" /\ r.impl = "op" /\ Len(g.docs) = 1 /\ g.docs[1] \in AckDocs
     /\ fed = Len(inp)) =>
        r.res = [ok |-> TopLevel(g.docs[1], NameOk),
                 n |-> TopLevel(g.docs[1], NameN),
                 nModified |-> TopLevel(g.docs[1], NameNModified),
                 errors |-> <<>>]

\* a document with nModified and a nested document named n has been parsed
C7_Witness ==
    /\ pc = "resp" /\ r.impl = "op" /\ fed = Len(inp)
    /\ g.docs = << << Int32Field(NameNModified, 2),
                      DocField(NameN, << Int32Field(NameX, 8) >>) >> >>
    /\ r.res.nModified = 2 /\ r.res.n = 0

----------------------------------------------------------------------------
(* Specification SpecTag: ToBsonTag is applied to one byte; inp holds the    *)
(* byte and ret the tag returned.                                           *)

InitTag ==
    /\ w = NewWriter
    /\ g = NoGhost
    /\ r = NewReader("doc")
    /\ \E c \in 0..255 : inp = <<c>>
    /\ fed = 0
    /\ ret = 0
    /\ sm = NoMatcher
    /\ pc = "tag"

\* BsonTag t = ToBsonTag(c)
TDecode ==
    /\ pc = "tag"
    /\ ret' = ToBsonTag(inp[1])
    /\ pc' = "tagged"
    /\ UNCHANGED <<w, g, r, inp, fed, sm>>

SpecTag == InitTag /\ [][TDecode]_vars

\* the codes of the fixed tag set
TagCodes == {1, 2, 3, 4, 5, 7, 8, 9, 10, 11, 13, 15, 16, 17, 18, 127, 255}

\* the tag whose code is the byte c
TagOfCode(c) == IF c = 255 THEN kMinKey ELSE c

\* C18: ToBsonTag(c) is the tag whose code is c when c is one of the codes
\* of the fixed tag set, and MinKey for every other byte.
C18_TagDecoding ==
    pc = "tagged" =>
        ret = IF inp[1] \in TagCodes THEN TagOfCode(inp[1]) ELSE kMinKey

----------------------------------------------------------------------------
(* Specification SpecView: a caller constructs a Document view over a byte  *)
(* range inp of any content, looks fields up, iterates, and goes into the   *)
(* documents and arrays the iterator yields.  g.v is the view, g.it the     *)
(* iterator over g.parent, g.curs the offset the iterator was last moved    *)
(* to, g.got the last result of GetField, g.reads the offsets the last call *)
(* has read, g.depth the number of containers the caller has gone into,     *)
(* g.last the last operation on the iterator, g.prev the iterator before   *)
(* the last next(), g.acc what GetData and GetDataSize returned for *it.    *)

\* the longest range of free content
MaxRange == 6

\* the bytes of a range of free content
RangeBytes == {0, 2, 5, 6, 10}

RECURSIVE Ranges(_)
Ranges(n) ==
    IF n = 0 THEN { <<>> }
    ELSE Ranges(n - 1)
         \cup { Append(q, b) : q \in {x \in Ranges(n - 1) : Len(x) = n - 1},
                               b \in RangeBytes }

\* documents whose elements have extreme lengths: a bindata of length 0,
\* a utf8 and a bindata whose length prefix is 0x7FFFFFFF
ViewDocs ==
    { WData(Pop(ElementBindata(Document(NewWriter), KeyA, 0, <<>>))),
      [WData(Pop(ElementUtf8(Document(NewWriter), KeyA, Hi)))
           EXCEPT ![8] = 255, ![9] = 255, ![10] = 255, ![11] = 127],
      [WData(Pop(ElementBindata(Document(NewWriter), KeyA, 128, <<1, 0>>)))
           EXCEPT ![8] = 255, ![9] = 255, ![10] = 255, ![11] = 127],
      WData(Pop(ElementObjectId(Document(NewWriter), KeyA, Oid))),
      WData(Pop(ElementBindata(Document(NewWriter), KeyA, 128, <<1, 0>>))) }

NoIt == [data |-> NullPtr, tag |-> kMinKey, size |-> 0, end |-> NullPtr,
         key |-> NullPtr]

NoAcc == [on |-> FALSE, data |-> NullPtr, size |-> -1]

InitView ==
    /\ w = NewWriter
    /\ g = [v |-> EmptyValue, parent |-> EmptyValue, it |-> NoIt,
            curs |-> NullPtr, got |-> EmptyValue, reads |-> {}, depth |-> 0,
            last |-> "none", prev |-> NoIt, acc |-> NoAcc]
    /\ r = NewReader("doc")
    /\ \/ inp \in Ranges(MaxRange)
       \/ inp \in ViewDocs
       \/ \E d \in FuzzDocs : \E i \in 1..Len(d) : \E b \in FuzzBytes :
              inp = [d EXCEPT ![i] = b]
    /\ fed = 0
    /\ ret = 0
    /\ sm = NoMatcher
    /\ pc = "new"

\* BsonValue v(data, size)
VConstruct ==
    /\ pc = "new"
    /\ g' = [g EXCEPT
               !.v = BsonValue(inp, 0, Len(inp), kDocument),
               !.reads = GetValueLengthReads(inp, kDocument, 0, Len(inp))]
    /\ pc' = "view"
    /\ UNCHANGED <<w, r, inp, fed, ret, sm>>

\* v.GetField(needle)
VGetField ==
    /\ pc = "view"
    /\ \E needle \in Needles :
        g' = [g EXCEPT
                !.got = GetField(inp, g.v, needle),
                !.reads = IF g.v.tag # kDocument THEN {}
                          ELSE GetFieldLoopReads(inp, g.v.data + 4,
                                                 g.v.data + g.v.size, needle)]
    /\ UNCHANGED <<w, r, inp, fed, ret, sm, pc>>

\* BsonValueIt it(v)
VBegin ==
    /\ pc = "view"
    /\ g' = [g EXCEPT
               !.it = BsonValueIt(inp, g.v),
               !.parent = g.v,
               !.curs = IF g.v.tag # kArray /\ g.v.tag # kDocument
                        THEN NullPtr ELSE g.v.data + 4,
               !.reads = IF g.v.tag # kArray /\ g.v.tag # kDocument THEN {}
                         ELSE MoveToReads(inp,
                                          [NoIt EXCEPT
                                               !.end = g.v.data + g.v.size],
                                          g.v.data + 4),
               !.last = "begin", !.prev = NoIt, !.acc = NoAcc]
    /\ UNCHANGED <<w, r, inp, fed, ret, sm, pc>>

\* it.next()
VNext ==
    /\ pc = "view" /\ g.last # "none"
    /\ g' = [g EXCEPT
               !.it = ItNext(inp, g.it),
               !.curs = IF Empty(g.it) THEN @ ELSE g.it.data + g.it.size,
               !.reads = IF Empty(g.it) THEN {}
                         ELSE MoveToReads(inp, g.it, g.it.data + g.it.size),
               !.last = "next", !.prev = g.it, !.acc = NoAcc]
    /\ UNCHANGED <<w, r, inp, fed, ret, sm, pc>>

\* the caller goes on with the document or array *it
VDescend ==
    /\ pc = "view" /\ g.curs # NullPtr /\ ~ItDone(g.it)
    /\ g.it.tag \in {kDocument, kArray}
    /\ g' = [g EXCEPT
               !.v = [data |-> g.it.data, tag |-> g.it.tag,
                      size |-> g.it.size],
               !.it = NoIt, !.curs = NullPtr, !.got = EmptyValue,
               !.reads = {}, !.depth = @ + 1,
               !.last = "none", !.prev = NoIt, !.acc = NoAcc]
    /\ UNCHANGED <<w, r, inp, fed, ret, sm, pc>>

\* it->GetData() and it->GetDataSize() on the element the iterator is at
VAccess ==
    /\ pc = "view" /\ g.last # "none" /\ ~ItDone(g.it)
    /\ g' = [g EXCEPT !.acc = [on |-> TRUE, data |-> GetData(g.it),
                               size |-> GetDataSize(g.it)]]
    /\ UNCHANGED <<w, r, inp, fed, ret, sm, pc>>

NextView ==
    VConstruct \/ VGetField \/ VBegin \/ VNext \/ VDescend \/ VAccess

SpecView == InitView /\ [][NextView]_vars

\* the byte range of c lies in the byte range of p
Inside(c, p) ==
    c.size >= 0 /\ c.data >= p.data /\ c.data + c.size <= p.data + p.size

\* C12: constructing a view over any byte range, looking a field up and
\* iterating, in every document and array yielded, reads only offsets in
\* [0, size) of the range, and every yielded child lies inside its parent's
\* byte range (a non-empty view lies inside the range).
C12_BoundedReads ==
    pc = "view" =>
        /\ g.reads \subseteq 0..(Len(inp) - 1)
        /\ ~Empty(g.v) => Inside(g.v, [data |-> 0, size |-> Len(inp)])
        /\ (g.curs # NullPtr /\ ~ItDone(g.it)) => Inside(g.it, g.parent)
        /\ ~Empty(g.got) => Inside(g.got, g.v)

\* C19: a Document view constructed from (data, size) is non-empty exactly
\* when size >= 5, the length prefix L satisfies 5 <= L <= size, and the byte
\* at offset L - 1 is 0x00.
C19_ViewValidity ==
    (pc = "view" /\ g.depth = 0) =>
        (~Empty(g.v) <=>
            /\ Len(inp) >= 5
            /\ 5 <= RdLE32(inp, 0)
            /\ RdLE32(inp, 0) <= Len(inp)
            /\ inp[RdLE32(inp, 0)] = 0)

\* the size of a value by the rules of the format; L is its length prefix
RuleSize(tag, L) ==
    CASE tag \in {kDocument, kArray} -> L
      [] tag \in {kUtf8, kJs} -> 4 + L
      [] tag = kBindata -> 5 + L
      [] tag \in {kDouble, kInt64, kUtcDatetime, kTimestamp} -> 8
      [] tag = kInt32 -> 4
      [] tag = kBool -> 1
      [] tag = kObjectId -> 12
      [] tag = kNull -> 0

\* the element at offset curs, tag and key and value, obeys the rules and
\* ends before the terminator of its parent, which ends at end
WellFormedAt(curs, end) ==
    LET tag == inp[curs + 1]
        vstart == FindNull(inp, curs + 1) + 1
        L == RdLE32(inp, vstart)
    IN  /\ tag \in ValueTagBytes
        /\ vstart <= end - 1
        /\ tag \in {kDocument, kArray, kUtf8, kJs, kBindata} =>
             /\ vstart + 4 <= end - 1
             /\ L <= end
             /\ tag \in {kDocument, kArray} => L >= 5
             /\ tag \in {kUtf8, kJs} => L > 0
             /\ tag = kBindata => L >= 0
        /\ vstart + RuleSize(tag, L) <= end - 1
        /\ tag \in {kDocument, kArray, kUtf8, kJs} =>
             inp[vstart + RuleSize(tag, L)] = 0

\* C20: the size of every element the iterator or GetField reaches is L for
\* a document or array, 4 + L for utf8/js, 5 + L for bindata, 8 for double,
\* int64, utc_datetime and timestamp, 4 for int32, 1 for bool, 12 for an
\* object id and 0 for null; an element that obeys the rules and fits in its
\* parent is yielded, a bindata of length 0 included; a Regexp, ScopedJs,
\* MinKey or MaxKey element ends the walk.
C20_ValueSizes ==
    pc = "view" =>
        /\ ~Empty(g.got) =>
             g.got.size = RuleSize(g.got.tag, RdLE32(inp, g.got.data))
        /\ (g.curs # NullPtr /\ ~ItDone(g.it)) =>
             g.it.size = RuleSize(g.it.tag, RdLE32(inp, g.it.data))
        /\ (g.curs # NullPtr /\ ~Empty(g.parent)
              /\ g.curs < g.parent.data + g.parent.size - 1) =>
             /\ WellFormedAt(g.curs, g.parent.data + g.parent.size) =>
                  /\ ~ItDone(g.it)
                  /\ g.it.tag = inp[g.curs + 1]
                  /\ g.it.key = g.curs + 1
                  /\ g.it.data = FindNull(inp, g.curs + 1) + 1
             /\ inp[g.curs + 1] \in {kRegexp, kScopedJs, 255, kMaxKey} =>
                  (ItDone(g.it) /\ Empty(g.it))

\* C21: for the element the iterator is at, GetData is the offset of the
\* first payload byte and GetDataSize the number of payload bytes: L - 1 for
\* utf8 and js (the terminator is not counted), L for bindata and 12 for an
\* object id; for every other tag GetData is the null pointer and
\* GetDataSize is -1.
C21_PayloadAccessors ==
    (pc = "view" /\ g.acc.on) =>
        LET L == Rd32(inp, g.it.data)
        IN  CASE g.it.tag \in {kUtf8, kJs} ->
                   g.acc.data = g.it.data + 4 /\ g.acc.size = L - 1
              [] g.it.tag = kBindata ->
                   g.acc.data = g.it.data + 5 /\ g.acc.size = L
              [] g.it.tag = kObjectId ->
                   g.acc.data = g.it.data /\ g.acc.size = kObjectIdLen
              [] OTHER -> g.acc.data = NullPtr /\ g.acc.size = -1

\* the element at offset curs has a tag outside the value tags, or a length
\* prefix that breaks the rules or runs over the end of its parent
MalformedAt(curs, end) ==
    LET tag == inp[curs + 1]
        vstart == FindNull(inp, curs + 1) + 1
        L == Rd32(inp, vstart)
    IN  \/ tag \notin ValueTagBytes
        \/ /\ tag \in {kDocument, kArray, kUtf8, kJs, kBindata}
           /\ vstart + 4 <= end - 1
           /\ \/ tag \in {kDocument, kArray} /\ L < 5
              \/ tag \in {kUtf8, kJs} /\ L <= 0
              \/ tag = kBindata /\ L < 0
              \/ L > end
              \/ vstart + RuleSize(tag, L) > end

\* C22: an iterator over a document or array view is at the element at its
\* cursor, with its key and its value view, whenever that element obeys the
\* rules of the format, so that a well-formed container is walked element by
\* element in wire order; it is done at the terminator of the container and
\* at the first malformed tag or length; next() on an iterator that is
\* not done moves the cursor strictly forward, next() on a done iterator
\* leaves it done, and an iterator over a view that is neither a document
\* nor an array is done from the start.
C22_Iteration ==
    (pc = "view" /\ g.last # "none") =>
        LET end == g.parent.data + g.parent.size
        IN  /\ g.parent.tag \notin {kDocument, kArray} => ItDone(g.it)
            /\ (g.parent.tag \in {kDocument, kArray} /\ end <= Len(inp)
                  /\ g.curs >= 0) =>
                  IF g.curs >= end - 1 THEN ItDone(g.it)
                  ELSE IF WellFormedAt(g.curs, end)
                  THEN /\ ~ItDone(g.it)
                       /\ g.it.tag = inp[g.curs + 1]
                       /\ g.it.key = g.curs + 1
                       /\ g.it.data = FindNull(inp, g.curs + 1) + 1
                       /\ g.it.size = RuleSize(g.it.tag, Rd32(inp, g.it.data))
                  ELSE MalformedAt(g.curs, end) => ItDone(g.it)
            /\ (g.last = "next" /\ ItDone(g.prev)) => ItDone(g.it)
            /\ (g.last = "next" /\ ~ItDone(g.prev)) =>
                  (g.curs > g.prev.key - 1 /\ g.curs >= g.prev.data)

----------------------------------------------------------------------------
(* Specification SpecKey: a caller opens a document and appends null        *)
(* elements under integer keys, Element(k, nullptr).  g.k is the key of the *)
(* last call, g.from the write position before it, g.n the number of calls. *)

\* number of elements appended
MaxKeyOps == 2

\* the integer keys: the ends of every digit count, and INT32_MAX
IntKeys ==
    {0, 1, 9, 10, 99, 100, 999, 1000, 9999, 10000, 99999, 100000, 999999,
     1000000, 9999999, 10000000, 99999999, 100000000, 999999999,
     1000000000, 2147483647}

InitKey ==
    /\ w = Document(NewWriter)
    /\ g = [k |-> 0, from |-> 0, n |-> 0]
    /\ r = NewReader("doc")
    /\ inp = <<>>
    /\ fed = 0
    /\ ret = 0
    /\ sm = NoMatcher
    /\ pc = "key"

\* w.Element(k, nullptr)
KElementNull ==
    /\ pc = "key" /\ g.n < MaxKeyOps
    /\ \E k \in IntKeys :
        /\ w' = ElementNull(w, IntKey(k))
        /\ g' = [k |-> k, from |-> w.pos, n |-> g.n + 1]
    /\ UNCHANGED <<r, inp, fed, ret, sm, pc>>

\* w.Pop() closes the document
KPop ==
    /\ pc = "key"
    /\ w' = Pop(w)
    /\ inp' = WData(w')
    /\ pc' = "closed"
    /\ UNCHANGED <<g, r, fed, ret, sm>>

NextKey == KElementNull \/ KPop

SpecKey == InitKey /\ [][NextKey]_vars

\* the number of decimal digits of k >= 0
DigitsOf(k) ==
    CHOOSE d \in 1..10 :
        /\ d = 1 \/ k >= 10 ^ (d - 1)
        /\ d = 10 \/ k < 10 ^ d

\* C24: for an integer key k >= 0 the writer emits, behind the tag byte, the
\* decimal ASCII digits of k without leading zeros ("0" for 0) and 0x00, and
\* advances the write position by digits(k) + 2, the tag byte included;
\* CountDigits(k) is the number of decimal digits of k.
C24_IntegerKeys ==
    (pc = "key" /\ g.n > 0) =>
        LET d == DigitsOf(g.k)
            digits == Slice(w.data, g.from + 1, g.from + 1 + d)
        IN  /\ CountDigits(g.k) = d
            /\ w.pos = g.from + d + 2
            /\ At(w.data, g.from) = kNull
            /\ digits = Decimal(g.k)
            /\ \A i \in 1..d : digits[i] \in 48..57
            /\ (d > 1 => digits[1] # 48)
            /\ At(w.data, g.from + d + 1) = 0
            /\ Slice(w.data, 0, g.from) = WData([w EXCEPT !.pos = g.from])

\* a key of six digits and then INT32_MAX, of ten digits, have been written
C24_Witness ==
    /\ pc = "key" /\ g.n = 2 /\ g.k = 2147483647
    /\ Slice(w.data, 4, 12) = <<10, 49, 48, 48, 48, 48, 48, 0>>
    /\ w.pos = 24

----------------------------------------------------------------------------
(* Specification SpecGrow: a caller writes strings of any length, so that   *)
(* the buffer leaves its inline storage and grows, and Clears the writer.   *)
(* g.prev is the writer before the last call, g.req the number of bytes the *)
(* call asks Reserve for, g.op the call, g.left whether the buffer has left *)
(* the inline storage, g.n the number of calls, g.open the number of open   *)
(* containers.                                                             *)

\* number of calls on the writer
MaxGrowOps == 3

\* the lengths of the strings written; the first string fits in the inline
\* region up to 228 bytes
GrowLens == {0, 1, 100, 227, 228, 229, 300, 500}

\* a string of n bytes
Filler(n) == [i \in 1..n |-> 120]

InitGrow ==
    /\ w = NewWriter
    /\ g = [prev |-> NewWriter, req |-> 0, op |-> "new", left |-> FALSE,
            n |-> 0, open |-> 0]
    /\ r = NewReader("doc")
    /\ inp = <<>>
    /\ fed = 0
    /\ ret = 0
    /\ sm = NoMatcher
    /\ pc = "grow"

\* the caller's view after a call that asks Reserve for req bytes
AfterCall(op, req, open) ==
    /\ g' = [prev |-> w, req |-> req, op |-> op,
             left |-> g.left \/ ~DataIsInline(w'), n |-> g.n + 1,
             open |-> open]
    /\ UNCHANGED <<r, inp, fed, ret, sm, pc>>

GDocument ==
    /\ pc = "grow" /\ w.pos = 0 /\ g.n < MaxGrowOps
    /\ w' = Document(w)
    /\ AfterCall("document", 5, 1)

GElementUtf8 ==
    /\ pc = "grow" /\ g.open > 0 /\ g.n < MaxGrowOps
    /\ \E n \in GrowLens :
        /\ w' = ElementUtf8(w, KeyA, Filler(n))
        /\ AfterCall("element", 1 + 1 + 1 + 4 + n + 1, g.open)

GPushDocument ==
    /\ pc = "grow" /\ g.open > 0 /\ g.n < MaxGrowOps
    /\ w' = PushDocument(w, KeyA)
    /\ AfterCall("push", 1 + 1 + 1 + 10, g.open + 1)

GPop ==
    /\ pc = "grow" /\ g.open > 0 /\ g.n < MaxGrowOps
    /\ w' = Pop(w)
    /\ AfterCall("pop", 1, g.open - 1)

GClear ==
    /\ pc = "grow" /\ w.pos > 0 /\ g.n < MaxGrowOps
    /\ w' = Clear(w)
    /\ AfterCall("clear", 0, 0)

NextGrow == GDocument \/ GElementUtf8 \/ GPushDocument \/ GPop \/ GClear

SpecGrow == InitGrow /\ [][NextGrow]_vars

\* C25: pos <= capacity always and every byte written lies below the
\* capacity; the capacity changes only in a call whose request does not fit
\* (capacity < pos + request), and then to
\* max(2 * capacity, capacity + request + 2); the bytes [0, pos) before the
\* call are as they were after it (Pop patches the four bytes of the length
\* prefix it closes, Clear sets pos to 0); once the buffer has left the
\* inline region of 240 bytes it never reports inline again, not after
\* Clear either.
C25_BufferGrowth ==
    pc = "grow" =>
        /\ w.pos <= w.size
        /\ Len(w.data) <= w.size
        /\ w.size = IF g.prev.size < g.prev.pos + g.req
                    THEN Max(2 * g.prev.size, g.prev.size + g.req + 2)
                    ELSE g.prev.size
        /\ g.op # "clear" =>
             \A i \in 1..g.prev.pos :
                 (g.op = "pop" /\ i - 1 \in g.prev.doc_start
                                            ..(g.prev.doc_start + 3))
                 \/ w.data[i] = g.prev.data[i]
        /\ g.left => ~DataIsInline(w)
        /\ DataIsInline(w) <=> w.size = 240

\* the buffer has grown to capacity + request + 2 and then to twice the
\* capacity, and has been cleared after it had left the inline region
C25_Witness ==
    /\ pc = "grow" /\ g.op = "element"
    /\ g.prev.size = 550 /\ w.size = 1100 /\ w.pos > 550

C25_WitnessClear ==
    /\ pc = "grow" /\ g.op = "clear" /\ g.left /\ w.pos = 0
    /\ g.prev.pos > 240

----------------------------------------------------------------------------
(* Properties of the response parsers (SpecResp), continued *)

\* the parse of a whole response in one Consume call by a fresh parser
OneCallResp(impl, buf) == Consume(NewReader(impl), buf).r

\* C26: whatever the chunks a response arrives in, with boundaries inside
\* the header, a field name, a length prefix or a string value, the response
\* parser ends with the result of the parse of the whole response in one
\* call, and the msg and info of every error are the complete errmsg and
\* errInfo values.
C26_ChunkIndependentExtraction ==
    (pc = "resp" /\ fed = Len(inp)) =>
        /\ r.res = OneCallResp(r.impl, inp).res
        /\ State(r) = State(OneCallResp(r.impl, inp))
        /\ (r.impl = "op" /\ g.docs = << WriteErrorInfoDoc >>) =>
             /\ Len(r.res.errors) = 2
             /\ r.res.errors[1].msg = Dup
             /\ r.res.errors[1].info = Xyz
             /\ r.res.errors[2].msg = <<>>
             /\ r.res.errors[2].info = Dup

\* the response with errmsg and errInfo has been parsed two bytes at a time
C26_Witness ==
    /\ pc = "resp" /\ r.impl = "op" /\ fed = Len(inp) /\ g.k = 2
    /\ g.docs = << WriteErrorInfoDoc >>
    /\ Len(r.res.errors) = 2
    /\ r.res.errors[1].info = Xyz
    /\ \E i \in 1..Len(r.ev) : r.ev[i] = Ev("utf8", <<122>>)

----------------------------------------------------------------------------
(* Specification SpecBad: an OpResponseParser is fed a response in which    *)
(* one byte of the document has been replaced, g.k bytes per Consume call;  *)
(* the caller keeps calling Consume whatever the parser answers.  g.prev is *)
(* the parser before the last call.                                         *)

\* the bytes a corrupted position may hold
BadBytes == {0, 2, 4, 16, 255}

\* the responses that are corrupted
BadResponses ==
    { Header(1) \o DocOf(WriteErrorDoc),
      Header(1) \o DocOf(<< Int32Field(NameN, 3) >>) }

InitBad ==
    /\ w = NewWriter
    /\ r = NewReader("op")
    /\ \E d \in BadResponses : \E i \in (kHeaderLen + 1)..Len(d) :
           \E b \in BadBytes : inp = [d EXCEPT ![i] = b]
    /\ \E k \in {1, MaxChunk, Len(inp)} :
           g = [prev |-> NewReader("op"), k |-> k]
    /\ fed = 0
    /\ ret = 0
    /\ sm = NoMatcher
    /\ pc = "bad"

\* one Consume call on the next g.k bytes of the response, or what is left
BadConsume ==
    /\ pc = "bad" /\ fed < Len(inp)
    /\ \E n \in {Min(g.k, Len(inp) - fed)} :
        \E res \in {Consume(r, Slice(inp, fed, fed + n))} :
            /\ r' = res.r
            /\ ret' = res.ret
            /\ fed' = fed + n
            /\ g' = [g EXCEPT !.prev = r]
    /\ UNCHANGED <<w, inp, sm, pc>>

NextBad == BadConsume

SpecBad == InitBad /\ [][NextBad]_vars

\* the records of type ParseError
ParseErrors(errs) == { i \in 1..Len(errs) : errs[i].type = "ParseError" }

\* C27: when the streaming parser underneath the response parser latches
\* Error, exactly one record of type ParseError is appended to errors, its
\* msg is the diagnostic of the error; the records collected before the
\* error are kept as they were; and the response parser is Done, in Error,
\* from then on: a later Consume call returns 0 and changes nothing.
C27_ParseErrorCapture ==
    pc = "bad" =>
        LET errs == r.res.errors
            before == g.prev.res.errors
            n == Len(errs)
        IN  /\ r.state # "kError" => ParseErrors(errs) = {}
            /\ r.state = "kError" =>
                  /\ ParseErrors(errs) = {n}
                  /\ r.ev[Len(r.ev)] = Ev("error", errs[n].msg)
                  /\ errs[n] = [NewCmdError EXCEPT !.msg = errs[n].msg,
                                                   !.type = "ParseError"]
                  /\ Done(r)
            /\ (r.state = "kError" /\ g.prev.state # "kError") =>
                  /\ ret = -1
                  /\ Len(before) <= n - 1
                  /\ \A i \in 1..(Len(before) - 1) : errs[i] = before[i]
                  /\ g.k = 1 => SubSeq(errs, 1, n - 1) = before
            /\ g.prev.state = "kError" => (r = g.prev /\ ret = 0)

\* an error has been latched after a write error had been collected, and
\* Consume has been called again
C27_Witness ==
    /\ pc = "bad" /\ g.prev.state = "kError" /\ ret = 0
    /\ Len(r.res.errors) = 2
    /\ r.res.errors[1].type = "WriteError"
    /\ r.res.errors[2].type = "ParseError"
    /\ r.res.errors[2].msg = MsgInvalidTag

----------------------------------------------------------------------------
(* Specification SpecInsert: a caller inserts a range of documents: it      *)
(* calls FillInsertRangeOp on a new writer, sends the message, and calls    *)
(* again while its cursor is not at the end of the range.  g.range is the   *)
(* range (a document is its int32 field "a"), g.curs the cursor, g.from the *)
(* cursor before the last call, g.calls the number of calls.                *)

\* the ranges up to this length are all inserted
MaxSmallRange == 60

\* the lengths of the ranges
RangeLens == (0..MaxSmallRange) \cup {999, 1000, 1001, 2000, 2001}

DbName == <<100, 98>>
CollName == <<99>>

InitInsert ==
    /\ w = NewWriter
    /\ \E n \in RangeLens :
        g = [range |-> [i \in 1..n |-> 3 * i + 1], curs |-> 0, from |-> 0,
             calls |-> 0]
    /\ r = NewReader("doc")
    /\ inp = <<>>
    /\ fed = 0
    /\ ret = 0
    /\ sm = NoMatcher
    /\ pc = "insert"

\* BsonWriter w; FillInsertRangeOp(&w, ++request_id, db, coll, &curs, end)
IFillInsertRangeOp ==
    /\ pc = "insert"
    /\ g.calls = 0 \/ g.curs # Len(g.range)
    /\ \E res \in { FillInsertRangeOp(NewWriter, g.calls + 1, DbName,
                                       CollName, g.range, g.curs,
                                       Len(g.range)) } :
        /\ w' = res.w
        /\ g' = [g EXCEPT !.from = g.curs, !.curs = res.curs,
                          !.calls = @ + 1]
    /\ UNCHANGED <<r, inp, fed, ret, sm, pc>>

NextInsert == IFillInsertRangeOp

SpecInsert == InitInsert /\ [][NextInsert]_vars

\* the bytes of the element of the documents array with key i: the document
\* {"a": int32 v}
DocElement(i, v) ==
    <<3>> \o Decimal(i) \o <<0>> \o BytesLE(12, 4)
    \o <<16, 97, 0>> \o BytesLE(v, 4) \o <<0>>

\* the elements with the keys lo..(hi - 1) for the documents of the range
\* behind position from
RECURSIVE DocElements(_, _, _, _)
DocElements(range, from, lo, hi) ==
    IF hi <= lo THEN <<>>
    ELSE IF hi = lo + 1 THEN DocElement(lo, range[from + lo + 1])
    ELSE LET mid == (lo + hi) \div 2
         IN  DocElements(range, from, lo, mid)
             \o DocElements(range, from, mid, hi)

\* the offset of the first element of the documents array in the message:
\* header, flags, "db.$cmd", skip and limit, then in the command document
\* its length, the element "insert" and tag, key and length of the array
DocumentsOffset ==
    16 + 4 + Len(DbName) + 6 + 4 + 4
    + 4 + (1 + 7 + 4 + Len(CollName) + 1) + (1 + 10 + 4)

----------------------------------------------------------------------------
(* Specification SpecDeep: a streaming parser is fed a document that holds  *)
(* a document that holds a document, and so on, n documents in all, each    *)
(* under the empty key, g.k bytes per Consume call.                         *)

\* the numbers of nested documents
Nestings == {1, 2, 3, 126, 127, 128, 129, 255, 256, 257}

\* the length prefix of the document at level j of n, the outermost being
\* level 1: the innermost is empty, and a document that holds one document
\* is 7 bytes longer than it
NestedLength(n, j) == 5 + 7 * (n - j)

\* the bytes of n nested documents: the length of the outermost, then tag,
\* empty key and length of each document inside, then the n terminators
DeepDoc(n) ==
    [i \in 1..(7 * n - 2) |->
        IF i <= 4 THEN LE32(NestedLength(n, 1))[i]
        ELSE IF i <= 4 + 6 * (n - 1)
        THEN LET j == ((i - 5) \div 6) + 2
                 p == (i - 5) % 6
             IN  IF p = 0 THEN kDocument
                 ELSE IF p = 1 THEN 0
                 ELSE LE32(NestedLength(n, j))[p - 1]
        ELSE 0]

InitDeep ==
    /\ w = NewWriter
    /\ r = NewReader("doc")
    /\ \E n \in Nestings : inp = DeepDoc(n)
    /\ \E k \in {1, 6, 7} : g = [k |-> k]
    /\ fed = 0
    /\ ret = 0
    /\ sm = NoMatcher
    /\ pc = "deep"

\* one Consume call on the next g.k bytes of the input, or what is left
DeepConsume ==
    /\ pc = "deep" /\ fed < Len(inp)
    /\ \E n \in {Min(g.k, Len(inp) - fed)} :
        \E res \in {Consume(r, Slice(inp, fed, fed + n))} :
            /\ r' = res.r
            /\ ret' = res.ret
            /\ fed' = fed + n
    /\ UNCHANGED <<w, g, inp, sm, pc>>

NextDeep == DeepConsume

SpecDeep == InitDeep /\ [][NextDeep]_vars

\* C29: in every state of the streaming parser the depth counter is the
\* number of open_doc and open_array events minus the number of close
\* events emitted so far, and lies in 0..127, whatever the input; the
\* parser is Done exactly when a close has brought the depth back to 0.
C29_DepthTracking ==
    pc = "deep" =>
        /\ r.depth = OpenAfter(r.ev, Len(r.ev))
        /\ r.depth \in 0..127
        /\ r.state = "kDone" <=>
             /\ r.ev # <<>>
             /\ r.ev[Len(r.ev)].k = "close"
             /\ OpenAfter(r.ev, Len(r.ev)) = 0

----------------------------------------------------------------------------
(* Specification SpecClear: a parser is fed some of a first input, Clear()  *)
(* is called, and the parser is fed a second input; g.fresh is a parser     *)
(* constructed at the time of the Clear() call and fed the same chunks.     *)

\* Clear() as the parser's class resolves it: BsonReader::Clear for a
\* document parser, ResponseReader::Clear for the response parsers
\* (OpResponseParser declares none of its own)
ParserClear(rd) ==
    IF rd.impl = "doc" THEN ReaderClear(rd) ELSE ResponseClear(rd)

\* the bytes a parser of this type takes for a document
InputOf(impl, fs) ==
    IF impl = "doc" THEN DocOf(fs) ELSE Header(1) \o DocOf(fs)

\* the offset of the tag of the first element
FirstTagAt(impl) == IF impl = "doc" THEN 5 ELSE kHeaderLen + 5

\* what is fed before Clear(): {n: 3}, the write error of WriteErrorDoc, and
\* {n: 3} with a tag no parser accepts
FirstInputs(impl) ==
    { InputOf(impl, << Int32Field(NameN, 3) >>),
      InputOf(impl, WriteErrorDoc),
      [InputOf(impl, << Int32Field(NameN, 3) >>)
          EXCEPT ![FirstTagAt(impl)] = 255] }

\* what is fed after Clear(): {ok: 1} and the write error of WriteErrorDoc
SecondInputs(impl) ==
    { InputOf(impl, << Int32Field(NameOk, 1) >>),
      InputOf(impl, WriteErrorDoc) }

InitClear ==
    /\ w = NewWriter
    /\ \E impl \in {"doc", "resp", "op"} :
        /\ r = NewReader(impl)
        /\ \E a \in FirstInputs(impl) : \E b \in SecondInputs(impl) :
            /\ inp = a
            /\ \E k \in {MaxChunk, Len(a) + Len(b)} :
                   g = [second |-> b, k |-> k, fresh |-> NewReader(impl),
                        fret |-> 0, at |-> "kError"]
    /\ fed = 0
    /\ ret = 0
    /\ sm = NoMatcher
    /\ pc = "first"

\* one Consume call on the next g.k bytes of the first input
CConsumeFirst ==
    /\ pc = "first" /\ fed < Len(inp)
    /\ \E n \in {Min(g.k, Len(inp) - fed)} :
        \E res \in {Consume(r, Slice(inp, fed, fed + n))} :
            /\ r' = res.r
            /\ ret' = res.ret
            /\ fed' = fed + n
    /\ UNCHANGED <<w, g, inp, sm, pc>>

\* Clear(), in whatever state the parser is; the second input is what the
\* caller feeds from now on, and the events are recorded anew
CClear ==
    /\ pc = "first"
    /\ r' = [ParserClear(r) EXCEPT !.ev = <<>>]
    /\ g' = [g EXCEPT !.at = r.state]
    /\ inp' = g.second
    /\ fed' = 0
    /\ ret' = 0
    /\ pc' = "second"
    /\ UNCHANGED <<w, sm>>

\* one Consume call of the cleared parser and of the fresh one on the next
\* g.k bytes of the second input
CConsumeSecond ==
    /\ pc = "second" /\ fed < Len(inp)
    /\ \E n \in {Min(g.k, Len(inp) - fed)} :
        \E res \in {Consume(r, Slice(inp, fed, fed + n))} :
        \E fr \in {Consume(g.fresh, Slice(inp, fed, fed + n))} :
            /\ r' = res.r
            /\ ret' = res.ret
            /\ g' = [g EXCEPT !.fresh = fr.r, !.fret = fr.ret]
            /\ fed' = fed + n
    /\ UNCHANGED <<w, inp, sm, pc>>

NextClear == CConsumeFirst \/ CClear \/ CConsumeSecond

SpecClear == InitClear /\ [][NextClear]_vars

\* C30: after Clear(), called mid-value, in Done or in Error, a streaming
\* parser and a response parser process what they are fed next with the
\* events, the Consume return values and the extracted result of a freshly
\* constructed parser of the same type.
C30_ClearIsFresh ==
    pc = "second" =>
        /\ r.ev = g.fresh.ev
        /\ ret = g.fret
        /\ r.res = g.fresh.res

----------------------------------------------------------------------------
(* Properties of the writer and the streaming parser (Spec), continued      *)

\* C31: the writer behaves like one that keeps an explicit stack of the
\* start offsets of the open containers (g.stack, top first): doc_start is
\* the top of the stack, the length slot of every open container holds the
\* start offset of its parent (0 for the top-level document of a fresh or
\* cleared writer), and Pop has restored doc_start to the parent's offset
\* and put the container's true length in its slot.
C31_ImplicitStack ==
    pc \in {"write", "complete"} =>
        /\ w.doc_start = IF g.stack = <<>> THEN 0 ELSE Head(g.stack)
        /\ \A i \in 1..Len(g.stack) :
               RdLE32(w.data, g.stack[i])
                   = IF i < Len(g.stack) THEN g.stack[i + 1] ELSE 0
        /\ \A c \in g.closed : RdLE32(w.data, c[1]) = c[2] - c[1]

\* a container is open inside the top-level document after a Pop of another
\* one: its slot holds 0, the offset of the top-level document
C31_Witness ==
    /\ pc = "write"
    /\ Len(g.stack) = 2
    /\ \E c \in g.closed : c[1] > 0 /\ c[2] <= g.stack[1]
    /\ w.doc_start = g.stack[1]
    /\ w.doc_start > 0
    /\ RdLE32(w.data, g.stack[1]) = g.stack[2]

\* the events of the string values: the chunk callbacks and the subtype
IsStringEvent(e) == e.k \in {"utf8", "js", "bindata", "bindata_subtype"}

StringEvents(evs) == SelectSeq(evs, IsStringEvent)

\* C32: for every utf8 or bindata value, the empty payload included, and
\* under any chunking, the parser emits events of that kind with len > 0
\* whose concatenation is the payload, then exactly one event with len = 0;
\* for bindata the bindata_subtype event comes before them.
C32_StringDelivery ==
    (pc = "read" /\ fed = Len(inp)) =>
        StringEvents(Merge(r.ev)) = StringEvents(g.exp)

IsFieldName(e) == e.k = "field_name"

\* the field_name call with len = 0
IsNameEnd(e) == e.k = "field_name" /\ e.d = <<>>

\* S1, the document {"a": int32 1}
S1 == <<12, 0, 0, 0, 16, 97, 0, 1, 0, 0, 0, 0>>

\* C33: for every element and under any chunking the parser emits
\* field_name events with len > 0 whose concatenation is the key, then
\* exactly one field_name event with len = 0, and only then the value or open
\* event of the element; the parse of {"a": int32 1} yields open_doc,
\* field_name("a", 1), field_name(len 0), int32(1), close.
C33_FieldNameDelivery ==
    pc = "read" =>
        /\ \A i \in 1..Len(r.ev) :
             /\ (IsFieldName(r.ev[i]) /\ ~IsNameEnd(r.ev[i]) /\ i < Len(r.ev))
                    => IsFieldName(r.ev[i + 1])
             /\ (IsNameEnd(r.ev[i]) /\ i < Len(r.ev))
                    => r.ev[i + 1].k \notin {"field_name", "close", "error"}
             /\ (i > 1 /\ r.ev[i].k \notin {"field_name", "close", "utf8",
                                             "bindata"})
                    => IsNameEnd(r.ev[i - 1])
             /\ (r.ev[i].k = "utf8")
                    => (IsNameEnd(r.ev[i - 1]) \/ r.ev[i - 1].k = "utf8")
             /\ (r.ev[i].k = "bindata")
                    => r.ev[i - 1].k \in {"bindata_subtype", "bindata"}
        /\ fed = Len(inp) =>
             SelectSeq(Merge(r.ev), IsFieldName) = SelectSeq(g.exp, IsFieldName)
        /\ (fed = Len(inp) /\ inp = S1) =>
             r.ev = << Ev("open_doc", <<>>), Ev("field_name", <<97>>),
                       Ev("field_name", <<>>), Ev("int32", <<1>>),
                       Ev("close", <<>>) >>

\* a finished parse in which the key "ab" arrived in two chunks, followed by
\* the len = 0 call and the value
C33_Witness ==
    /\ pc = "read" /\ fed = Len(inp) /\ r.state = "kDone"
    /\ \E i \in 1..(Len(r.ev) - 3) :
         /\ r.ev[i] = Ev("field_name", <<97>>)
         /\ r.ev[i + 1] = Ev("field_name", <<98>>)
         /\ IsNameEnd(r.ev[i + 2])
         /\ r.ev[i + 3].k = "double"

\* the parse of S1 one byte at a time or otherwise
C33_WitnessS1 == pc = "read" /\ fed = Len(inp) /\ inp = S1

----------------------------------------------------------------------------
(* Specification SpecErr: an OpResponseParser is fed a response whose       *)
(* documents hold writeErrors and writeConcernErrors arrays, other fields   *)
(* with documents at the same depth and documents nested deeper, g.k bytes  *)
(* per Consume call.                                                        *)

NameWriteConcernErrors ==
    <<119, 114, 105, 116, 101, 67, 111, 110, 99, 101, 114, 110, 69, 114, 114, 111, 114, 115>>
Key0 == <<48>>
Key1 == <<49>>
Key2 == <<50>>

\* {n: 1, writeErrors: [{index: 1, errmsg: "dup"},
\*                      {index: 2, x: {index: 9, errmsg: "dup"}, errInfo: "xyz"}],
\*  writeConcernErrors: [{index: 3}]}
TwoKindsDoc ==
    << Int32Field(NameN, 1),
       ArrayField(NameWriteErrors,
           << DocField(Key0, << Int32Field(NameIndex, 1),
                                Utf8Field(NameErrmsg, Dup) >>),
              DocField(Key1, << Int32Field(NameIndex, 2),
                                DocField(NameX,
                                    << Int32Field(NameIndex, 9),
                                       Utf8Field(NameErrmsg, Dup) >>),
                                Utf8Field(NameErrInfo, Xyz) >>) >>),
       ArrayField(NameWriteConcernErrors,
           << DocField(Key0, << Int32Field(NameIndex, 3) >>) >>) >>

\* {x: [{index: 7}], d: {0: {index: 8, 0: {}}}, ok: 1}
OtherFieldsDoc ==
    << ArrayField(NameX, << DocField(Key0, << Int32Field(NameIndex, 7) >>) >>),
       DocField(NameD,
           << DocField(Key0, << Int32Field(NameIndex, 8),
                                DocField(Key0, <<>>) >>) >>),
       Int32Field(NameOk, 1) >>

\* {writeConcernErrors: [5, [{index: 4}], {index: 5}],
\*  writeErrors: [{}, {index: 6}]}
MixedArrayDoc ==
    << ArrayField(NameWriteConcernErrors,
           << Int32Field(Key0, 5),
              ArrayField(Key1, << DocField(Key0,
                                      << Int32Field(NameIndex, 4) >>) >>),
              DocField(Key2, << Int32Field(NameIndex, 5) >>) >>),
       ArrayField(NameWriteErrors,
           << DocField(Key0, <<>>),
              DocField(Key1, << Int32Field(NameIndex, 6) >>) >>) >>

ErrResponses ==
    { << TwoKindsDoc >>, << OtherFieldsDoc >>, << MixedArrayDoc >>,
      << MixedArrayDoc, OtherFieldsDoc >>,
      << OtherFieldsDoc, TwoKindsDoc >> }

\* the chunk sizes of the caller
ErrChunks == {1, MaxChunk, 16}

InitErr ==
    /\ w = NewWriter
    /\ r = NewReader("op")
    /\ \E docs \in ErrResponses : \E k \in ErrChunks :
        /\ inp = Header(Len(docs))
                 \o Concat([i \in 1..Len(docs) |-> DocOf(docs[i])])
        /\ g = [docs |-> docs, k |-> k, prev |-> NewReader("op")]
    /\ fed = 0
    /\ ret = 0
    /\ sm = NoMatcher
    /\ pc = "err"

\* one Consume call on the next g.k bytes of the response, or what is left
ErrConsume ==
    /\ pc = "err" /\ fed < Len(inp)
    /\ \E n \in {Min(g.k, Len(inp) - fed)} :
        \E res \in {Consume(r, Slice(inp, fed, fed + n))} :
            /\ r' = res.r
            /\ ret' = res.ret
            /\ fed' = fed + n
            /\ g' = [g EXCEPT !.prev = r]
    /\ UNCHANGED <<w, inp, sm, pc>>

NextErr == ErrConsume

SpecErr == InitErr /\ [][NextErr]_vars

\* the value of the last int32 field named index among these fields, 0 if
\* there is none
IndexOf(fs) ==
    LET at == {i \in 1..Len(fs) :
                  fs[i].kind = "int32" /\ fs[i].name = NameIndex}
    IN  IF at = {} THEN 0
        ELSE fs[CHOOSE i \in at : \A j \in at : j <= i].i

\* type and index of the records one document of a response calls for: one
\* for each document directly inside its writeErrors or writeConcernErrors
\* array
RecordsOfDoc(fs) ==
    Concat([i \in 1..Len(fs) |->
        IF fs[i].kind = "array"
           /\ fs[i].name \in {NameWriteErrors, NameWriteConcernErrors}
        THEN LET sub == fs[i].sub
                 docs == SelectSeq([j \in 1..Len(sub) |-> j],
                                   LAMBDA j : sub[j].kind = "doc")
             IN  [j \in 1..Len(docs) |->
                     [type |-> IF fs[i].name = NameWriteErrors
                               THEN "WriteError" ELSE "WriteConcernError",
                      index |-> IndexOf(sub[docs[j]].sub)]]
        ELSE <<>>])

RecordsOf(docs) == Concat([i \in 1..Len(docs) |-> RecordsOfDoc(docs[i])])

\* type and index of the records the parser holds
RecordsHeld(rd) ==
    [i \in 1..Len(rd.res.errors) |->
        [type |-> rd.res.errors[i].type, index |-> rd.res.errors[i].index]]

----------------------------------------------------------------------------
(* Specification SpecOdd: an OpResponseParser is fed a parseable response   *)
(* in which arrays and documents are nested in other ways under writeErrors *)
(* and writeConcernErrors, and array elements have keys of any kind.        *)

\* {writeErrors: [[index: 5]]}
ArrayInArrayDoc ==
    << ArrayField(NameWriteErrors,
           << ArrayField(Key0, << Int32Field(NameIndex, 5) >>) >>) >>

\* {writeErrors: [{index: 1}, [index: 5]]}
ArrayAfterDoc ==
    << ArrayField(NameWriteErrors,
           << DocField(Key0, << Int32Field(NameIndex, 1) >>),
              ArrayField(Key1, << Int32Field(NameIndex, 5) >>) >>) >>

\* {writeErrors: {a: {index: 1, errmsg: "dup"}}}
DocInDoc ==
    << DocField(NameWriteErrors,
           << DocField(<<97>>, << Int32Field(NameIndex, 1),
                                  Utf8Field(NameErrmsg, Dup) >>) >>) >>

\* {writeConcernErrors: {a: [errmsg: "dup"]}}
ArrayInDoc ==
    << DocField(NameWriteConcernErrors,
           << ArrayField(<<97>>, << Utf8Field(NameErrmsg, Dup) >>) >>) >>

OddResponses ==
    { << ArrayInArrayDoc >>, << ArrayAfterDoc >>, << DocInDoc >>,
      << ArrayInDoc >>, << TwoKindsDoc >>, << MixedArrayDoc >> }

InitOdd ==
    /\ w = NewWriter
    /\ r = NewReader("op")
    /\ \E docs \in OddResponses : \E k \in ErrChunks :
        /\ inp = Header(Len(docs))
                 \o Concat([i \in 1..Len(docs) |-> DocOf(docs[i])])
        /\ g = [docs |-> docs, k |-> k, prev |-> NewReader("op")]
    /\ fed = 0
    /\ ret = 0
    /\ sm = NoMatcher
    /\ pc = "err"

SpecOdd == InitOdd /\ [][NextErr]_vars

\* the open events of the containers that are open after all of evs
StillOpen(evs) ==
    {i \in 1..Len(evs) :
        /\ evs[i].k \in {"open_doc", "open_array"}
        /\ \A j \in i..Len(evs) : OpenAfter(evs, j) >= OpenAfter(evs, i)}

\* the event that opened the innermost open container
Innermost(evs) == evs[CHOOSE i \in StillOpen(evs) : \A j \in StillOpen(evs) : j <= i]

\* C35: for every parseable input, whenever an int32 or utf8 event is
\* written into the last error record, the errors sequence is not empty and
\* its last record is the one appended for the enclosing depth-3 document:
\* the container the value sits in is a document at depth 3.
C35_LastRecordSafety ==
    pc = "err" =>
        /\ ~r.fault
        /\ (g.k = 1 /\ Len(r.res.errors) = Len(g.prev.res.errors)
               /\ r.res.errors # g.prev.res.errors)
              => /\ StillOpen(r.ev) # {}
                 /\ Innermost(r.ev).k = "open_doc"
                 /\ OpenAfter(r.ev, Len(r.ev)) = 3

----------------------------------------------------------------------------
(* Specification SpecCount: a response parser is fed a header with any      *)
(* number_returned, negative ones included, and the documents that follow   *)
(* it, g.k bytes per Consume call.                                          *)

\* the values of number_returned
NumbersReturned == {-2, -1, 0, 1, 2}

\* the documents that follow the header, as many as announced or not
Followers == UNION { [1..n -> BatchDocs] : n \in 0..3 }

InitCount ==
    /\ w = NewWriter
    /\ \E impl \in {"resp", "op"} : r = NewReader(impl)
    /\ \E nr \in NumbersReturned : \E docs \in Followers :
        /\ inp = Header(nr)
                 \o Concat([i \in 1..Len(docs) |-> DocOf(docs[i])])
        /\ \E k \in {1, MaxChunk, kHeaderLen, kHeaderLen + 1} :
               g = [nr |-> nr, k |-> k]
    /\ fed = 0
    /\ ret = 0
    /\ sm = NoMatcher
    /\ pc = "count"

\* one Consume call on the next g.k bytes, or what is left
CountConsume ==
    /\ pc = "count" /\ fed < Len(inp)
    /\ \E n \in {Min(g.k, Len(inp) - fed)} :
        \E res \in {Consume(r, Slice(inp, fed, fed + n))} :
            /\ r' = res.r
            /\ ret' = res.ret
            /\ fed' = fed + n
    /\ UNCHANGED <<w, g, inp, sm, pc>>

NextCount == CountConsume

SpecCount == InitCount /\ [][NextCount]_vars

\* the number of document_start events
DocumentStarts(evs) ==
    Cardinality({i \in 1..Len(evs) : evs[i].k = "document_start"})

\* C36: for every header value the response parser emits at most
\* max(number_returned, 0) document_start events, and for number_returned
\* <= 0 it emits stop and is Done right after the 36 header bytes, without
\* expecting a document.
C36_DocumentCountBound ==
    pc = "count" =>
        /\ DocumentStarts(r.ev) <= (IF g.nr > 0 THEN g.nr ELSE 0)
        /\ (g.nr <= 0 /\ fed >= kHeaderLen) =>
             /\ r.state = "kDone"
             /\ r.ev = << Ev("start", Header(g.nr)), Ev("stop", <<>>) >>

----------------------------------------------------------------------------
(* Specification SpecDeclared: a matcher over one of the two tables of      *)
(* OpResponseParser, as they are declared, is fed a string byte by byte: a  *)
(* keyword, a keyword with one byte replaced or inserted, a prefix of a     *)
(* keyword, or one or two bytes of any kind, followed by the null byte.     *)

DeclaredTables == {sma_, ema_}

\* the bytes that replace a byte of a keyword or are inserted in it: the
\* letters at which the keywords branch, and x
OtherBytes == {67, 69, 73, 77, 99, 101, 105, 107, 110, 111, 119, 120}

\* the strings fed to a matcher over the table t, without the null byte
FedStrings(t) ==
    UNION { LET kw == SubSeq(t.k[i].match, 1, Len(t.k[i].match) - 1)
            IN  {kw, NameCode}
                \cup { SubSeq(kw, 1, n) : n \in 0..Len(kw) }
                \cup { [kw EXCEPT ![n] = b] :
                         n \in 1..Len(kw), b \in OtherBytes }
                \cup { SubSeq(kw, 1, n) \o <<b>> \o SubSeq(kw, n + 1, Len(kw)) :
                         n \in 0..Len(kw), b \in OtherBytes }
          : i \in 1..Len(t.k) }
    \cup UNION { [1..n -> OtherBytes] : n \in 1..2 }

InitDeclared ==
    /\ w = NewWriter
    /\ r = NewReader("op")
    /\ inp = <<>>
    /\ fed = 0
    /\ ret = 0
    /\ \E t \in DeclaredTables :
        /\ sm = [t |-> t, m |-> NewMatcher(t), fed |-> <<>>]
        /\ \E str \in FedStrings(t) : g = [word |-> str \o <<0>>]
    /\ pc = "declared"

\* AddChar(c) with the next byte of the string
DAddChar ==
    /\ pc = "declared" /\ Len(sm.fed) < Len(g.word)
    /\ \E c \in {g.word[Len(sm.fed) + 1]} :
        sm' = [sm EXCEPT !.m = AddChar(sm.t, sm.m, c), !.fed = Append(@, c)]
    /\ UNCHANGED <<w, g, r, inp, fed, ret, pc>>

NextDeclared == DAddChar

SpecDeclared == InitDeclared /\ [][NextDeclared]_vars

\* C37: over the tables as declared in the response parser, neither of
\* them sorted, a declared keyword followed by the null byte gives the
\* action of that keyword, any other string followed by the null byte gives
\* Unknown, and the matcher never reads a keyword past its terminating null.
C37_DeclaredTables ==
    pc = "declared" =>
        /\ ~sm.m.oob
        /\ Terminated(sm.fed) =>
             LET hits == { i \in 1..Len(sm.t.k) : sm.t.k[i].match = sm.fed }
             IN  /\ \A i \in hits : GetResult(sm.t, sm.m) = sm.t.k[i].val
                 /\ hits = {} => GetResult(sm.t, sm.m) = "kUnknown"

\* n, declared after nModified, has been matched
C37_Witness ==
    /\ pc = "declared"
    /\ sm.t = sma_
    /\ sm.fed = <<110, 0>>
    /\ sm.m.state = "kSuccess"
    /\ GetResult(sm.t, sm.m) = "kN"

----------------------------------------------------------------------------
(* Specification SpecState: as SpecFuzz, for a document parser and for a    *)
(* response parser (the document then follows a header), with documents     *)
(* that hold every kind of fixed-width value as well.                       *)

StateDocs ==
    FuzzDocs
    \cup { WData(Pop(ElementDouble(Document(NewWriter), KeyA, B8b))),
           WData(Pop(ElementObjectId(Document(NewWriter), KeyA, Oid))),
           WData(Pop(ElementTimestamp(Document(NewWriter), KeyA, B8b))),
           WData(Pop(ElementUtcDatetime(Document(NewWriter), KeyA, B8a))) }

\* the documents fed to the response parser
RespStateDocs ==
    { WData(Pop(ElementBool(Document(NewWriter), KeyA, TRUE))) }

InitState ==
    /\ w = NewWriter
    /\ \E impl \in {"doc", "resp"} :
        /\ r = NewReader(impl)
        /\ g = [prev |-> NewReader(impl), c |-> <<>>, kind |-> "mutated"]
        /\ \E d \in (IF impl = "doc" THEN StateDocs ELSE RespStateDocs) :
           \E i \in 1..Len(d) : \E b \in FuzzBytes :
               inp = (IF impl = "doc" THEN <<>> ELSE Header(1))
                     \o [d EXCEPT ![i] = b]
    /\ fed = 0
    /\ ret = 0
    /\ sm = NoMatcher
    /\ pc = "fuzz"

NextState == FConsume

SpecState == InitState /\ [][NextState]_vars

\* C38: between Consume calls, for any input and chunking, the state of the
\* parser, its tag and its partial count agree: ReadInt32 goes with a tag
\* whose value starts with an int32 and partial < 4, ReadInt64 with a 64 bit
\* tag and partial < 8, ReadDouble with Double and partial < 8, ReadObjectId
\* with partial < 12, Header with partial < 36, ReadString with a string tag
\* and partial >= 1, and FieldType, FieldName and ReadBool with partial = 0;
\* no assert(false) branch has been taken and nothing was written outside
\* the 12 bytes of scratch.
C38_StateConsistency ==
    pc = "fuzz" =>
        /\ r.state = "kReadInt32" =>
             /\ r.typ \in {kDocument, kArray, kInt32, kUtf8, kJs, kBindata}
             /\ r.partial \in 0..3
        /\ r.state = "kReadInt64" =>
             /\ r.typ \in {kInt64, kUtcDatetime, kTimestamp}
             /\ r.partial \in 0..7
        /\ r.state = "kReadDouble" => (r.typ = kDouble /\ r.partial \in 0..7)
        /\ r.state = "kReadObjectId" => r.partial \in 0..(kObjectIdLen - 1)
        /\ r.state = "kHdr" => r.partial \in 0..(kHeaderLen - 1)
        /\ r.state = "kReadString" =>
             (r.typ \in {kUtf8, kJs, kBindata} /\ r.partial >= 1)
        /\ r.state \in {"kFieldTyp", "kFieldName", "kReadBool"} =>
             r.partial = 0
        /\ ~r.fault
        /\ Len(r.scratch_) = kScratchLen_
        /\ Len(r.header_) = kHeaderLen

\* the terminator of a string arrived in a call of its own: partial still
\* held the length of the payload before the call and is 0 after it
C38_Witness ==
    /\ pc = "fuzz"
    /\ g.prev.state = "kReadStringTerm" /\ g.prev.partial > 0
    /\ r.state = "kFieldTyp" /\ r.partial = 0

----------------------------------------------------------------------------
(* Specification SpecFill: a caller fills one insert command with           *)
(* FillInsertOp from values whose field writer succeeds or fails.           *)

\* the largest number of values of one call
MaxValues == 3

\* a value and what its field writer returns
FillValues == [v : {1, 2}, ok : BOOLEAN]

InitFill ==
    /\ w = NewWriter
    /\ \E vs \in UNION { [1..n -> FillValues] : n \in 0..MaxValues } :
        g = [values |-> vs]
    /\ r = NewReader("doc")
    /\ inp = <<>>
    /\ fed = 0
    /\ ret = 0
    /\ sm = NoMatcher
    /\ pc = "fill"

\* BsonWriter w; ret = FillInsertOp(&w, 1, db, coll, values...)
IFillInsertOp ==
    /\ pc = "fill"
    /\ \E res \in { FillInsertOp(NewWriter, 1, DbName, CollName, g.values) } :
        /\ w' = res.w
        /\ ret' = IF res.ok THEN 1 ELSE 0
    /\ pc' = "filled"
    /\ UNCHANGED <<g, r, inp, fed, sm>>

NextFill == IFillInsertOp

SpecFill == InitFill /\ [][NextFill]_vars

\* C39: FillInsertOp returns true only if the field writer of every one of
\* its documents returned true; if the field writer of any document, the
\* first or a later one, returns false, FillInsertOp returns false.
C39_FailurePropagation ==
    pc = "filled" =>
        (ret = 1 <=> \A i \in 1..Len(g.values) : g.values[i].ok)

----------------------------------------------------------------------------
(* Specification SpecPre: the caller has read the 36 bytes of the header    *)
(* itself, constructs the response parser from that header and feeds it the *)
(* documents that follow, g.k bytes per Consume call.                       *)

InitPre ==
    /\ w = NewWriter
    /\ \E impl \in {"resp", "op"} :
       \E docs \in UNION { [1..n -> BatchDocs \cup {WriteErrorDoc}] :
                             n \in 0..MaxDocs } :
        /\ r = NewReaderWithHeader(impl, Header(Len(docs)))
        /\ inp = Concat([i \in 1..Len(docs) |-> DocOf(docs[i])])
        /\ \E k \in {1, MaxChunk, kHeaderLen} :
               g = [hdr |-> Header(Len(docs)), nr |-> Len(docs), k |-> k]
    /\ fed = 0
    /\ ret = 0
    /\ sm = NoMatcher
    /\ pc = "pre"

\* one Consume call on the next g.k bytes, or what is left
PreConsume ==
    /\ pc = "pre" /\ fed < Len(inp)
    /\ \E n \in {Min(g.k, Len(inp) - fed)} :
        \E res \in {Consume(r, Slice(inp, fed, fed + n))} :
            /\ r' = res.r
            /\ ret' = res.ret
            /\ fed' = fed + n
    /\ UNCHANGED <<w, g, inp, sm, pc>>

NextPre == PreConsume

SpecPre == InitPre /\ [][NextPre]_vars

\* C40: a response parser constructed from a header that was received
\* already keeps that header, which Header() keeps returning, and takes the
\* first bytes it is fed for the first document, not for another header; it
\* is Done from the start when number_returned is 0, and Done once the
\* documents the header announces have been fed.
C40_PreReadHeader ==
    pc = "pre" =>
        /\ r.header_ = g.hdr
        /\ r.state # "kHdr"
        /\ g.nr = 0 => r.state = "kDone"
        /\ (g.nr > 0 /\ fed >= 4) =>
             \E i \in 1..Len(r.ev) : r.ev[i].k = "open_doc"
        /\ fed = Len(inp) => r.state = "kDone"

====
